---- MODULE Spec2Model ----
(***************************************************************************)
(* Model of the personal-finance backend (src/financas/backend): the       *)
(* goal, budget, transaction and category controllers, the progress        *)
(* calculators and the report generators, over the relational store they   *)
(* share.  Every controller call is one step: it reads the committed       *)
(* tables, builds the pending session state, and commits or rolls back.    *)
(*                                                                         *)
(* Money amounts are integers (the code uses floats; no claim here rests   *)
(* on rounding), dates are day numbers, and a quotient the code computes   *)
(* with "/" is kept as an exact fraction [n, d] with d > 0.                *)
(***************************************************************************)
EXTENDS Integers, Sequences, FiniteSets, TLC

VARIABLES
    today,              \* date.today(): the current day number
    goals,              \* table goal: id -> row
    contributions,      \* table goalcontribution: id -> row
    categories,         \* table category: id -> row
    transactions,       \* table transaction: id -> row
    budgets,            \* table budget: id -> row
    budget_categories,  \* table budgetcategory: id -> row
    reports,            \* table report: id -> row
    report_schedules,   \* table reportschedule: id -> row
    last,               \* the last controller call and what it returned
    sessions            \* add_goal_contribution requests in flight: the goal each has read

\* the tables of each package, and with the goals the requests in flight on them
goalTables == <<goals, contributions, sessions>>
ledgerTables == <<categories, transactions>>
budgetTables == <<budgets, budget_categories>>
reportTables == <<reports, report_schedules>>

vars == <<today, goalTables, ledgerTables, budgetTables, reportTables, last>>

----------------------------------------------------------------------------
(* Bounds of the model *)

NumUsers == 2
MaxGoals == 1
MaxContribs == 2
MaxCategories == 2
MaxTransactions == 2
MaxBudgets == 1
MaxReports == 1
MaxSchedules == 1
MaxRows == 3
MaxDay == 6
MaxSessions == 2

----------------------------------------------------------------------------
(* Values *)

\* Python None / SQL NULL
None == -99

Users == 1 .. NumUsers

\* the first day of a run; today moves from FirstDay up to MaxDay
FirstDay == MaxDay - 1

Max(a, b) == IF a >= b THEN a ELSE b
Min(a, b) == IF a <= b THEN a ELSE b

MaxOf(S) == CHOOSE x \in S : \A y \in S : y <= x

\* id = Column(Integer, primary_key=True): the store hands out max(id) + 1
NextId(table) == IF DOMAIN table = {} THEN 1 ELSE MaxOf(DOMAIN table) + 1

\* table with row id removed
Without(table, id) == [k \in DOMAIN table \ {id} |-> table[k]]

\* table with row id set
With(table, id, row) == [k \in DOMAIN table \cup {id} |-> IF k = id THEN row ELSE table[k]]

\* an exact fraction n / d, d > 0
Frac(n, d) == [n |-> n, d |-> d]
Zero == Frac(0, 1)
Hundred == Frac(100, 1)
FracLess(a, b) == a.n * b.d < b.n * a.d
FracLeq(a, b) == a.n * b.d <= b.n * a.d
FracEq(a, b) == a.n * b.d = b.n * a.d
\* min(x, y) as Python evaluates it: the first argument unless the second is smaller
FracMin(a, b) == IF FracLess(b, a) THEN b ELSE a

\* parse_date: a day number for a well-formed string, None for any other string
BadDate == -98
parse_date(s) == IF s = None \/ s = BadDate THEN None ELSE s

\* sum(f[x] for x in S)
RECURSIVE Sum(_, _)
Sum(f, S) ==
    IF S = {} THEN 0
    ELSE LET x == CHOOSE y \in S : TRUE IN f[x] + Sum(f, S \ {x})

----------------------------------------------------------------------------
(* The calendar: datetime.date and calendar.monthrange as the report code
   uses them. A date is its proleptic Gregorian ordinal, date.toordinal(). *)

IsLeap(year) == (year % 4 = 0 /\ year % 100 # 0) \/ year % 400 = 0

\* calendar.monthrange(year, month)[1]
DaysInMonth(year, month) ==
    IF month = 2 THEN (IF IsLeap(year) THEN 29 ELSE 28)
    ELSE IF month \in {4, 6, 9, 11} THEN 30 ELSE 31

\* date(year, month, day).toordinal()
toordinal(year, month, day) ==
    LET y == year - 1
        before == [m \in 1 .. 12 |-> DaysInMonth(year, m)]
    IN  y * 365 + (y \div 4) - (y \div 100) + (y \div 400)
            + Sum(before, 1 .. (month - 1)) + day

\* date.weekday(): Monday is 0
weekday(ordinal) == (ordinal + 6) % 7

\* get_date_range with a quarter that runs a month too long
get_date_range_LongQuarter(period, ref_date) ==
    LET ref == toordinal(ref_date.year, ref_date.month, ref_date.day)
        Range(s, e) == [start |-> s, end |-> e]
        month == Range(toordinal(ref_date.year, ref_date.month, 1),
                       toordinal(ref_date.year, ref_date.month,
                                 DaysInMonth(ref_date.year, ref_date.month)))
    IN  IF period = "day" THEN Range(ref, ref)
        ELSE IF period = "week"
        THEN Range(ref - weekday(ref), (ref - weekday(ref)) + 6)
        ELSE IF period = "month" THEN month
        ELSE IF period = "quarter"
        THEN LET quarter == (ref_date.month - 1) \div 3
                 first_month == quarter * 3 + 1
                 last_month == first_month + 3
             IN  Range(toordinal(ref_date.year, first_month, 1),
                       toordinal(ref_date.year, last_month,
                                 DaysInMonth(ref_date.year, last_month)))
        ELSE IF period = "year"
        THEN Range(toordinal(ref_date.year, 1, 1), toordinal(ref_date.year, 12, 31))
        ELSE IF period = "all"
        THEN Range(toordinal(ref_date.year - 10, ref_date.month,
                             Min(ref_date.day,
                                 DaysInMonth(ref_date.year - 10, ref_date.month))),
                   ref)
        ELSE month

\* date-helpers.py, get_date_range(period, reference_date) for a reference
\* date given as [year, month, day]: the (start, end) pair, as ordinals
get_date_range(period, ref_date) ==
    LET ref == toordinal(ref_date.year, ref_date.month, ref_date.day)
        Range(s, e) == [start |-> s, end |-> e]
        \* first and last day of the month of the reference date
        month == Range(toordinal(ref_date.year, ref_date.month, 1),
                       toordinal(ref_date.year, ref_date.month,
                                 DaysInMonth(ref_date.year, ref_date.month)))
    IN  IF period = "day" THEN Range(ref, ref)
        ELSE IF period = "week"
        \* the week starts on Monday
        THEN Range(ref - weekday(ref), (ref - weekday(ref)) + 6)
        ELSE IF period = "month" THEN month
        ELSE IF period = "quarter"
        THEN LET quarter == (ref_date.month - 1) \div 3
                 first_month == quarter * 3 + 1
                 last_month == first_month + 2
             IN  Range(toordinal(ref_date.year, first_month, 1),
                       toordinal(ref_date.year, last_month,
                                 DaysInMonth(ref_date.year, last_month)))
        ELSE IF period = "year"
        THEN Range(toordinal(ref_date.year, 1, 1), toordinal(ref_date.year, 12, 31))
        ELSE IF period = "all"
        \* relativedelta(years=10): the same day ten years before, the 29th of
        \* February falling back to the 28th
        THEN Range(toordinal(ref_date.year - 10, ref_date.month,
                             Min(ref_date.day,
                                 DaysInMonth(ref_date.year - 10, ref_date.month))),
                   ref)
        \* any other period: the month
        ELSE month

----------------------------------------------------------------------------
(* The session: commit and rollback *)

\* what a commit can do: succeed, raise IntegrityError, raise another error
Faults == {"ok", "IntegrityError", "Exception"}

\* db.session.commit(), with the rollback() of the except branches: the pending
\* session state is persisted, or the committed tables stay as they are
commit(pending, committed, fault) == IF fault = "ok" THEN pending ELSE committed

\* except IntegrityError: rollback(); return None
\* except Exception as e: rollback(); raise e
Failed(fault) == IF fault = "IntegrityError" THEN "None" ELSE "raise"

\* what a handler that returns rows or a dict returns after its commit
Returned(fault) == IF fault = "ok" THEN "ok" ELSE Failed(fault)

----------------------------------------------------------------------------
(* Goals: goals/models.py, goals/controllers.py, goals/routes.py *)

\* Goal.__init__: the row of a new goal, completed at once when already reached
Goal(user_id, target_amount, current_amount, deadline) ==
    LET reached == current_amount >= target_amount
    IN  [user_id |-> user_id,
         target_amount |-> target_amount,
         current_amount |-> current_amount,
         deadline |-> deadline,
         is_completed |-> reached,
         completed_date |-> IF reached THEN today ELSE None]

\* GoalContribution.__init__: date defaults to now
GoalContribution(goal_id, amount) ==
    [goal_id |-> goal_id, amount |-> amount, date |-> today]

\* the result of a goal controller: what it returns and the committed tables
GoalResult(res, g, c) == [res |-> res, goals |-> g, contributions |-> c]

create_goal(user_id, goal_data, fault) ==
    LET deadline == IF goal_data.deadline # None
                    THEN parse_date(goal_data.deadline) ELSE None
        goal == Goal(user_id, goal_data.target_amount, goal_data.current_amount, deadline)
        checked == IF goal.current_amount >= goal.target_amount
                   THEN [goal EXCEPT !.is_completed = TRUE, !.completed_date = today]
                   ELSE goal
        \* db.session.add(goal)
        pending == With(goals, NextId(goals), checked)
    IN  GoalResult(Returned(fault), commit(pending, goals, fault), contributions)

\* Goal.query.filter_by(id=goal_id, user_id=user_id).first()
GoalOf(goal_id, user_id) ==
    IF goal_id \in DOMAIN goals /\ goals[goal_id].user_id = user_id THEN goal_id ELSE None

get_goal(goal_id, user_id) ==
    IF goal_id \notin DOMAIN goals THEN None
    ELSE IF user_id # None /\ user_id # 0 /\ goals[goal_id].user_id # user_id THEN None
    ELSE goal_id

\* a re-evaluation that never takes a completion back
Reevaluate_NoReset(goal) ==
    IF goal.current_amount >= goal.target_amount /\ ~goal.is_completed
    THEN [goal EXCEPT !.is_completed = TRUE, !.completed_date = today]
    ELSE goal

\* a re-evaluation that never marks a goal completed
Reevaluate_NoMark(goal) ==
    IF goal.current_amount < goal.target_amount /\ goal.is_completed
    THEN [goal EXCEPT !.is_completed = FALSE, !.completed_date = None]
    ELSE goal

\* lines 148-155 of update_goal: completion re-evaluated in both directions
Reevaluate(goal) ==
    IF goal.current_amount >= goal.target_amount /\ ~goal.is_completed
    THEN [goal EXCEPT !.is_completed = TRUE, !.completed_date = today]
    ELSE IF goal.current_amount < goal.target_amount /\ goal.is_completed
    THEN [goal EXCEPT !.is_completed = FALSE, !.completed_date = None]
    ELSE goal

\* an update that drops the contributions of the goal when it sets
\* current_amount
update_goal_DropsContributions(goal_id, user_id, updated_data, fault) ==
    IF GoalOf(goal_id, user_id) = None THEN GoalResult("None", goals, contributions)
    ELSE
    LET goal == goals[goal_id]
        has(k) == k \in DOMAIN updated_data
        g1 == IF has("target_amount")
              THEN [goal EXCEPT !.target_amount = updated_data["target_amount"]] ELSE goal
        g2 == IF has("current_amount")
              THEN [g1 EXCEPT !.current_amount = updated_data["current_amount"]] ELSE g1
        g3 == IF has("deadline")
              THEN IF updated_data["deadline"] # None
                   THEN IF parse_date(updated_data["deadline"]) # None
                        THEN [g2 EXCEPT !.deadline = parse_date(updated_data["deadline"])]
                        ELSE g2
                   ELSE [g2 EXCEPT !.deadline = None]
              ELSE g2
        g4 == Reevaluate(g3)
        pending == With(goals, goal_id, g4)
        kept == IF has("current_amount")
                THEN [c \in {k \in DOMAIN contributions : contributions[k].goal_id # goal_id}
                         |-> contributions[c]]
                ELSE contributions
    IN  GoalResult(Returned(fault), commit(pending, goals, fault),
                   commit(kept, contributions, fault))

update_goal(goal_id, user_id, updated_data, fault) ==
    IF GoalOf(goal_id, user_id) = None THEN GoalResult("None", goals, contributions)
    ELSE
    LET goal == goals[goal_id]
        has(k) == k \in DOMAIN updated_data
        g1 == IF has("target_amount")
              THEN [goal EXCEPT !.target_amount = updated_data["target_amount"]] ELSE goal
        g2 == IF has("current_amount")
              THEN [g1 EXCEPT !.current_amount = updated_data["current_amount"]] ELSE g1
        g3 == IF has("deadline")
              THEN IF updated_data["deadline"] # None
                   THEN IF parse_date(updated_data["deadline"]) # None
                        THEN [g2 EXCEPT !.deadline = parse_date(updated_data["deadline"])]
                        ELSE g2
                   ELSE [g2 EXCEPT !.deadline = None]
              ELSE g2
        g4 == Reevaluate(g3)
        pending == With(goals, goal_id, g4)
    IN  GoalResult(Returned(fault), commit(pending, goals, fault), contributions)

\* cascade="all, delete-orphan": the goal's contributions go with it
delete_goal(goal_id, user_id, fault) ==
    IF GoalOf(goal_id, user_id) = None THEN GoalResult("False", goals, contributions)
    ELSE
    LET pendingG == Without(goals, goal_id)
        pendingC == [c \in {k \in DOMAIN contributions : contributions[k].goal_id # goal_id}
                        |-> contributions[c]]
    IN  \* except Exception: rollback(); return False
        GoalResult(IF fault = "ok" THEN "True" ELSE "False",
                   commit(pendingG, goals, fault), commit(pendingC, contributions, fault))

\* a completion check that stamps the date again on a goal already completed
MarkCompleted_Restamp(goal) ==
    IF goal.current_amount >= goal.target_amount
    THEN [goal EXCEPT !.is_completed = TRUE, !.completed_date = today]
    ELSE goal

\* lines 229-232 of add_goal_contribution
MarkCompleted(goal) ==
    IF goal.current_amount >= goal.target_amount /\ ~goal.is_completed
    THEN [goal EXCEPT !.is_completed = TRUE, !.completed_date = today]
    ELSE goal

\* a handler that commits the contribution row before it updates the goal
add_goal_contribution_TwoCommits(goal_id, user_id, contribution_data, fault) ==
    IF GoalOf(goal_id, user_id) = None THEN GoalResult("None", goals, contributions)
    ELSE
    LET goal == goals[goal_id]
        contribution == GoalContribution(goal_id, contribution_data.amount)
        pendingC == With(contributions, NextId(contributions), contribution)
        g1 == [goal EXCEPT !.current_amount = goal.current_amount + contribution.amount]
        pendingG == With(goals, goal_id, MarkCompleted(g1))
    IN  GoalResult(Returned(fault),
                   commit(pendingG, goals, fault), commit(pendingC, contributions, "ok"))

add_goal_contribution(goal_id, user_id, contribution_data, fault) ==
    IF GoalOf(goal_id, user_id) = None THEN GoalResult("None", goals, contributions)
    ELSE
    LET goal == goals[goal_id]
        c0 == GoalContribution(goal_id, contribution_data.amount)
        contribution ==
            IF contribution_data.date # None /\ parse_date(contribution_data.date) # None
            THEN [c0 EXCEPT !.date = parse_date(contribution_data.date)] ELSE c0
        \* db.session.add(contribution)
        pendingC == With(contributions, NextId(contributions), contribution)
        g1 == [goal EXCEPT !.current_amount = goal.current_amount + contribution.amount]
        pendingG == With(goals, goal_id, MarkCompleted(g1))
    IN  GoalResult(Returned(fault),
                   commit(pendingG, goals, fault), commit(pendingC, contributions, fault))

\* add_goal_contribution up to line 226: the request has loaded the goal and
\* built the contribution, nothing is flushed yet
ReadGoal(goal_id, amount) ==
    [goal_id |-> goal_id, amount |-> amount, goal |-> goals[goal_id]]

\* a flush that adds the amount to the row as stored at commit
FlushContribution_OnStoredRow(session, fault) ==
    LET g1 == [goals[session.goal_id] EXCEPT !.current_amount = @ + session.amount]
        pendingC == With(contributions, NextId(contributions),
                         GoalContribution(session.goal_id, session.amount))
        pendingG == With(goals, session.goal_id, MarkCompleted(g1))
    IN  GoalResult(Returned(fault),
                   commit(pendingG, goals, fault), commit(pendingC, contributions, fault))

\* lines 226-234 of add_goal_contribution on the goal object the request
\* loaded: current_amount += amount and the completion check, then commit().
\* The UPDATE sets the columns that changed on the object to the values
\* computed from what was read.
FlushContribution(session, fault) ==
    LET read == session.goal
        g1 == [read EXCEPT !.current_amount = @ + session.amount]
        g2 == MarkCompleted(g1)
        stored == goals[session.goal_id]
        written == [stored EXCEPT
                       !.current_amount = g2.current_amount,
                       !.is_completed = IF g2.is_completed # read.is_completed
                                        THEN g2.is_completed ELSE @,
                       !.completed_date = IF g2.completed_date # read.completed_date
                                          THEN g2.completed_date ELSE @]
        pendingC == With(contributions, NextId(contributions),
                         GoalContribution(session.goal_id, session.amount))
        pendingG == With(goals, session.goal_id, written)
    IN  GoalResult(Returned(fault),
                   commit(pendingG, goals, fault), commit(pendingC, contributions, fault))

\* routes.py add_contribution: the amount check, then the controller
add_contribution(goal_id, current_user_id, data, fault) ==
    IF data.amount <= 0 THEN GoalResult("400", goals, contributions)
    ELSE add_goal_contribution(goal_id, current_user_id, data, fault)

get_goal_contributions(goal_id, user_id) ==
    IF user_id # None /\ user_id # 0 /\ GoalOf(goal_id, user_id) = None
    THEN [res |-> "None", rows |-> {}]
    ELSE [res |-> "ok",
          rows |-> {k \in DOMAIN contributions : contributions[k].goal_id = goal_id}]

\* goal.current_amount / goal.target_amount * 100, guarded by target_amount > 0
Percentage(goal) ==
    IF goal.target_amount > 0
    THEN FracMin(Hundred, Frac(goal.current_amount * 100, goal.target_amount))
    ELSE Zero

\* the status: lines 292-302 of calculate_goal_progress
ProgressStatus(goal, progress_percentage) ==
    IF ~goal.is_completed /\ goal.deadline # None
    THEN IF goal.deadline < today THEN "overdue"
         ELSE IF goal.deadline - today <= 30 /\ FracLess(progress_percentage, Frac(75, 1))
              THEN "at_risk"
              ELSE "in_progress"
    ELSE IF goal.is_completed THEN "completed" ELSE "in_progress"

\* the progress record of one goal; a key the code leaves out is None here
GoalProgress(goal) ==
    LET progress_percentage == Percentage(goal)
        remaining_amount == Max(0, goal.target_amount - goal.current_amount)
        days_remaining == IF goal.deadline # None /\ ~goal.is_completed
                          THEN Max(0, goal.deadline - today) ELSE None
    IN  [res |-> "ok",
         progress_percentage |-> progress_percentage,
         remaining_amount |-> remaining_amount,
         status |-> ProgressStatus(goal, progress_percentage),
         days_remaining |-> days_remaining,
         daily_amount_needed |->
             IF days_remaining # None /\ days_remaining > 0
             THEN Frac(remaining_amount, days_remaining) ELSE Frac(None, 1)]

calculate_goal_progress(goal_id, user_id) ==
    IF get_goal(goal_id, user_id) = None THEN [res |-> "None"]
    ELSE GoalProgress(goals[goal_id])

\* n / d for d # 0, as an exact fraction
Quot(n, d) == IF d > 0 THEN Frac(n, d) ELSE Frac(0 - n, 0 - d)

\* lines 458-495 of generate_goals_report: the entry of one goal
GoalsReportEntry(goal) ==
    LET days_remaining == IF goal.deadline # None /\ ~goal.is_completed
                          THEN Max(0, goal.deadline - today) ELSE None
        remaining == goal.target_amount - goal.current_amount
        daily_amount_needed ==
            IF days_remaining # None /\ days_remaining > 0 /\ remaining > 0
            THEN Frac(remaining, days_remaining) ELSE Frac(None, 1)
        \* the at_risk test divides by target_amount
        divides == /\ ~goal.is_completed /\ goal.deadline # None
                   /\ days_remaining > 0 /\ days_remaining <= 30
        status == IF goal.is_completed THEN "completed"
                  ELSE IF goal.deadline = None THEN "in_progress"
                  ELSE IF days_remaining <= 0 THEN "overdue"
                  ELSE IF days_remaining <= 30
                          /\ goal.target_amount # 0
                          /\ FracLess(Quot(goal.current_amount, goal.target_amount), Frac(3, 4))
                       THEN "at_risk"
                       ELSE "on_track"
    IN  IF divides /\ goal.target_amount = 0 THEN [res |-> "ZeroDivisionError"]
        ELSE [res |-> "ok",
              percentage |-> Percentage(goal),
              remaining_amount |-> Max(0, goal.target_amount - goal.current_amount),
              days_remaining |-> days_remaining,
              daily_amount_needed |-> daily_amount_needed,
              status |-> status]

----------------------------------------------------------------------------
(* Categories and ledger entries: transactions/models.py, transactions/controllers.py *)

\* Category.__init__
Category(name, type, user_id, is_default) ==
    [name |-> name, type |-> type, user_id |-> user_id, is_default |-> is_default]

\* Transaction.__init__
Transaction(type, amount, date, user_id, category_id) ==
    [type |-> type, amount |-> amount, date |-> date,
     user_id |-> user_id, category_id |-> category_id]

\* the result of a ledger controller: what it returns and the committed tables
LedgerResult(res, c, t) == [res |-> res, categories |-> c, transactions |-> t]

create_category(name, type, user_id, is_default, fault) ==
    LET existing == \E c \in DOMAIN categories :
                        /\ categories[c].name = name
                        /\ categories[c].type = type
                        /\ categories[c].user_id = user_id
        pending == With(categories, NextId(categories),
                        Category(name, type, user_id, is_default))
    IN  IF existing THEN LedgerResult("None", categories, transactions)
        ELSE LedgerResult(Returned(fault), commit(pending, categories, fault), transactions)

create_transaction(user_id, transaction_data, fault) ==
    LET transaction_date == parse_date(transaction_data.date)
        transaction == Transaction(transaction_data.type, transaction_data.amount,
                                   transaction_date, user_id, transaction_data.category_id)
        pending == With(transactions, NextId(transactions), transaction)
    IN  IF transaction_data.category_id \notin DOMAIN categories
        THEN LedgerResult("None", categories, transactions)
        ELSE IF transaction_date = None
        THEN LedgerResult("None", categories, transactions)
        ELSE LedgerResult(Returned(fault), categories, commit(pending, transactions, fault))

\* Transaction.query.filter_by(id=transaction_id, user_id=user_id).first()
TransactionOf(transaction_id, user_id) ==
    IF transaction_id \in DOMAIN transactions
           /\ transactions[transaction_id].user_id = user_id
    THEN transaction_id ELSE None

get_transaction(transaction_id, user_id) ==
    IF transaction_id \notin DOMAIN transactions THEN None
    ELSE IF user_id # None /\ user_id # 0
               /\ transactions[transaction_id].user_id # user_id THEN None
    ELSE transaction_id

\* updated_data is a dict: a function from the keys it has to their values
update_transaction(transaction_id, user_id, updated_data, fault) ==
    LET id == TransactionOf(transaction_id, user_id)
        old == transactions[id]
        has(k) == k \in DOMAIN updated_data
        transaction ==
            [old EXCEPT
                !.type = IF has("type") THEN updated_data["type"] ELSE @,
                !.amount = IF has("amount") THEN updated_data["amount"] ELSE @,
                !.date = IF has("date") /\ parse_date(updated_data["date"]) # None
                         THEN parse_date(updated_data["date"]) ELSE @,
                !.category_id = IF has("category_id")
                                     /\ updated_data["category_id"] \in DOMAIN categories
                                THEN updated_data["category_id"] ELSE @]
        pending == With(transactions, id, transaction)
    IN  IF id = None THEN LedgerResult("None", categories, transactions)
        ELSE LedgerResult(Returned(fault), categories, commit(pending, transactions, fault))

\* except Exception: rollback(); return False
delete_transaction(transaction_id, user_id, fault) ==
    LET id == TransactionOf(transaction_id, user_id)
        pending == Without(transactions, id)
    IN  IF id = None THEN LedgerResult("False", categories, transactions)
        ELSE LedgerResult(IF fault = "ok" THEN "True" ELSE "False",
                          categories, commit(pending, transactions, fault))

\* Category.query.filter_by(id=category_id, user_id=user_id).first()
CategoryOf(category_id, user_id) ==
    IF category_id \in DOMAIN categories /\ categories[category_id].user_id = user_id
    THEN category_id ELSE None

update_category(category_id, user_id, updated_data, fault) ==
    LET id == CategoryOf(category_id, user_id)
        has(k) == k \in DOMAIN updated_data
        category == [categories[id] EXCEPT
                        !.name = IF has("name") THEN updated_data["name"] ELSE @]
        pending == With(categories, id, category)
    IN  IF id = None \/ categories[id].is_default
        THEN LedgerResult("None", categories, transactions)
        ELSE LedgerResult(Returned(fault), commit(pending, categories, fault), transactions)

\* a removal that does not count the entries using the category
delete_category_Uncounted(category_id, user_id, fault) ==
    LET id == CategoryOf(category_id, user_id)
    IN  IF id = None \/ categories[id].is_default
        THEN LedgerResult("False", categories, transactions)
        ELSE LedgerResult(IF fault = "ok" THEN "True" ELSE "False",
                          commit(Without(categories, id), categories, fault), transactions)

delete_category(category_id, user_id, fault) ==
    LET id == CategoryOf(category_id, user_id)
        transactions_count ==
            Cardinality({t \in DOMAIN transactions :
                            transactions[t].category_id = category_id})
    IN  IF id = None \/ categories[id].is_default
        THEN LedgerResult("False", categories, transactions)
        ELSE IF transactions_count > 0
        THEN LedgerResult("False", categories, transactions)
        ELSE LedgerResult(IF fault = "ok" THEN "True" ELSE "False",
                          commit(Without(categories, id), categories, fault), transactions)

----------------------------------------------------------------------------
(* Budgets: budgets/models.py, budgets/controllers.py *)

\* Budget.__init__: is_active defaults to True
Budget(amount, start_date, end_date, user_id) ==
    [amount |-> amount, start_date |-> start_date, end_date |-> end_date,
     is_active |-> TRUE, user_id |-> user_id]

\* BudgetCategory.__init__
BudgetCategory(budget_id, category_id, amount) ==
    [budget_id |-> budget_id, category_id |-> category_id, amount |-> amount]

\* the result of a budget controller: what it returns and the committed tables
BudgetResult(res, b, a) == [res |-> res, budgets |-> b, budget_categories |-> a]

\* amount = Column(Float, nullable=False): a NULL amount makes the flush raise
\* IntegrityError where nothing else has failed
NotNull(fault, hasNull) == IF fault = "ok" /\ hasNull THEN "IntegrityError" ELSE fault

\* the allocations of budget budget_id
AllocationsOf(table, budget_id) == {a \in DOMAIN table : table[a].budget_id = budget_id}

\* for category_data in categories: db.session.add(BudgetCategory(...)) for
\* every entry whose category exists
RECURSIVE AddAllocations(_, _, _)
AddAllocations(table, budget_id, category_list) ==
    IF category_list = <<>> THEN table
    ELSE LET category_data == Head(category_list)
             added == IF category_data.category_id \in DOMAIN categories
                      THEN With(table, NextId(table),
                                BudgetCategory(budget_id, category_data.category_id,
                                               category_data.amount))
                      ELSE table
         IN  AddAllocations(added, budget_id, Tail(category_list))

\* budget_data is a dict with amount, start_date, end_date and perhaps
\* categories; fault1 is what the commit of the budget row does, fault2 what
\* the commit of the allocations does
create_budget(user_id, budget_data, fault1, fault2) ==
    LET start_date == parse_date(budget_data["start_date"])
        end_date == parse_date(budget_data["end_date"])
        budget == Budget(budget_data["amount"], start_date, end_date, user_id)
        id == NextId(budgets)
        \* db.session.add(budget); commit()
        first == NotNull(fault1, budget.amount = None)
        committed == commit(With(budgets, id, budget), budgets, first)
        \* the allocations are added, and committed, after that
        pending == AddAllocations(budget_categories, id, budget_data["categories"])
        second == NotNull(fault2, \E a \in DOMAIN pending : pending[a].amount = None)
    IN  IF start_date = None \/ end_date = None
        THEN BudgetResult("None", budgets, budget_categories)
        ELSE IF first # "ok"
        THEN BudgetResult(Failed(first), budgets, budget_categories)
        ELSE IF "categories" \notin DOMAIN budget_data
        THEN BudgetResult("ok", committed, budget_categories)
        ELSE BudgetResult(Returned(second), committed,
                          commit(pending, budget_categories, second))

\* a lookup that forgets the owner
BudgetOf_AnyOwner(budget_id, user_id) ==
    IF budget_id \in DOMAIN budgets THEN budget_id ELSE None

\* Budget.query.filter_by(id=budget_id, user_id=user_id).first()
BudgetOf(budget_id, user_id) ==
    IF budget_id \in DOMAIN budgets /\ budgets[budget_id].user_id = user_id
    THEN budget_id ELSE None

get_budget(budget_id, user_id) ==
    IF budget_id \notin DOMAIN budgets THEN None
    ELSE IF user_id # None /\ user_id # 0 /\ budgets[budget_id].user_id # user_id THEN None
    ELSE budget_id

update_budget(budget_id, user_id, updated_data, fault) ==
    LET id == BudgetOf(budget_id, user_id)
        old == budgets[id]
        has(k) == k \in DOMAIN updated_data
        budget ==
            [old EXCEPT
                !.amount = IF has("amount") THEN updated_data["amount"] ELSE @,
                !.is_active = IF has("is_active") THEN updated_data["is_active"] ELSE @,
                !.start_date = IF has("start_date")
                                    /\ parse_date(updated_data["start_date"]) # None
                               THEN parse_date(updated_data["start_date"]) ELSE @,
                !.end_date = IF has("end_date")
                                  /\ parse_date(updated_data["end_date"]) # None
                             THEN parse_date(updated_data["end_date"]) ELSE @]
        \* BudgetCategory.query.filter_by(budget_id=budget.id).delete()
        kept == [a \in DOMAIN budget_categories \ AllocationsOf(budget_categories, id)
                    |-> budget_categories[a]]
        pending == IF has("categories")
                   THEN AddAllocations(kept, id, updated_data["categories"])
                   ELSE budget_categories
        f == NotNull(fault, budget.amount = None
                                \/ \E a \in DOMAIN pending : pending[a].amount = None)
    IN  IF id = None THEN BudgetResult("None", budgets, budget_categories)
        ELSE BudgetResult(Returned(f), commit(With(budgets, id, budget), budgets, f),
                          commit(pending, budget_categories, f))

\* the allocations go with the budget (cascade="all, delete-orphan")
delete_budget(budget_id, user_id, fault) ==
    LET id == BudgetOf(budget_id, user_id)
        pendingA == [a \in DOMAIN budget_categories \ AllocationsOf(budget_categories, id)
                        |-> budget_categories[a]]
    IN  IF id = None THEN BudgetResult("False", budgets, budget_categories)
        ELSE BudgetResult(IF fault = "ok" THEN "True" ELSE "False",
                          commit(Without(budgets, id), budgets, fault),
                          commit(pendingA, budget_categories, fault))

\* the amount of every ledger entry
Amounts == [t \in DOMAIN transactions |-> transactions[t].amount]

\* the expense entries of user_id dated within [start_date, end_date]
ExpensesIn(user_id, start_date, end_date) ==
    {t \in DOMAIN transactions :
        /\ transactions[t].user_id = user_id
        /\ transactions[t].type = "expense"
        /\ transactions[t].date >= start_date
        /\ transactions[t].date <= end_date}

\* the entries of T in category category_id
InCategory(T, category_id) == {t \in T : transactions[t].category_id = category_id}

\* min(100, (spent / amount * 100)) if amount > 0 else 0
Percent(spent, amount) ==
    IF amount > 0 THEN FracMin(Hundred, Frac(spent * 100, amount)) ELSE Zero

\* the dict calculate_budget_progress builds for a budget it has found; the
\* per-category list has one entry per allocation
BudgetProgress(budget_id) ==
    LET budget == budgets[budget_id]
        entries == ExpensesIn(budget.user_id, budget.start_date, budget.end_date)
        total_spent == Sum(Amounts, entries)
        allocated == AllocationsOf(budget_categories, budget_id)
        categories_progress ==
            [a \in allocated |->
                LET budget_cat == budget_categories[a]
                    cat_spent == Sum(Amounts, InCategory(entries, budget_cat.category_id))
                IN  [category_id |-> budget_cat.category_id,
                     budget_amount |-> budget_cat.amount,
                     spent |-> cat_spent,
                     remaining |-> Max(0, budget_cat.amount - cat_spent),
                     percentage |-> Percent(cat_spent, budget_cat.amount)]]
    IN  \* Category.query.get(budget_cat.category_id).to_dict() on a category
        \* that is gone
        IF \E a \in allocated : budget_categories[a].category_id \notin DOMAIN categories
        THEN [res |-> "AttributeError"]
        ELSE [res |-> "ok",
              total_budget |-> budget.amount,
              total_spent |-> total_spent,
              remaining |-> Max(0, budget.amount - total_spent),
              percentage |-> Percent(total_spent, budget.amount),
              categories |-> categories_progress]

calculate_budget_progress(budget_id, user_id) ==
    IF get_budget(budget_id, user_id) = None THEN [res |-> "None"]
    ELSE BudgetProgress(budget_id)

\* the list get_budget_categories returns: the allocations whose category exists
get_budget_categories(budget_id, user_id) ==
    IF user_id # None /\ user_id # 0 /\ BudgetOf(budget_id, user_id) = None
    THEN [res |-> "None", rows |-> {}]
    ELSE [res |-> "ok",
          rows |-> {a \in AllocationsOf(budget_categories, budget_id) :
                       budget_categories[a].category_id \in DOMAIN categories}]

----------------------------------------------------------------------------
(* The budget report: reports/generators.py *)

\* the entry generate_budget_report builds for one budget over the part of
\* [start_date, end_date] the budget covers; its per-category dict is keyed
\* by category, so the last allocation of a category is the one it shows
BudgetReportEntry(budget_id, start_date, end_date) ==
    LET budget == budgets[budget_id]
        period_start == Max(budget.start_date, start_date)
        period_end == Min(budget.end_date, end_date)
        allocated == AllocationsOf(budget_categories, budget_id)
        category_ids == {budget_categories[a].category_id : a \in allocated}
        inPeriod == ExpensesIn(budget.user_id, period_start, period_end)
        entries == IF allocated # {}
                   THEN {t \in inPeriod : transactions[t].category_id \in category_ids}
                   ELSE inPeriod
        category_spending ==
            [c \in category_ids |->
                LET bc == budget_categories[
                              MaxOf({a \in allocated : budget_categories[a].category_id = c})]
                    spent == Sum(Amounts, InCategory(entries, c))
                IN  [budget_amount |-> bc.amount,
                     spent |-> spent,
                     remaining |-> Max(0, bc.amount - spent),
                     percentage |-> Percent(spent, bc.amount),
                     status |-> IF spent <= bc.amount THEN "on_track" ELSE "exceeded"]]
        total_spent == Sum(Amounts, entries)
    IN  [total_budget |-> budget.amount,
         total_spent |-> total_spent,
         remaining |-> Max(0, budget.amount - total_spent),
         percentage |-> Percent(total_spent, budget.amount),
         status |-> IF total_spent <= budget.amount THEN "on_track" ELSE "exceeded",
         categories |-> category_spending]

\* the active budgets of user_id that overlap [start_date, end_date]
ReportedBudgets(user_id, start_date, end_date) ==
    {b \in DOMAIN budgets :
        /\ budgets[b].user_id = user_id
        /\ budgets[b].is_active
        /\ budgets[b].start_date <= end_date
        /\ budgets[b].end_date >= start_date}

generate_budget_report(user_id, start_date, end_date) ==
    IF parse_date(start_date) = None \/ parse_date(end_date) = None
    THEN [res |-> "error"]
    ELSE [res |-> "ok",
          budgets |-> [b \in ReportedBudgets(user_id, parse_date(start_date),
                                             parse_date(end_date))
                          |-> BudgetReportEntry(b, parse_date(start_date),
                                                parse_date(end_date))]]

----------------------------------------------------------------------------
(* Report generation: reports/generators.py and generate_report of
   reports/controllers.py. A generator returns a dict; res is "ok" for a
   report, "error" for a dict with the key 'error', and the name of the
   exception when one is raised. *)

\* the entries of user_id dated within [start_date, end_date]
EntriesIn(user_id, start_date, end_date) ==
    {t \in DOMAIN transactions :
        /\ transactions[t].user_id = user_id
        /\ transactions[t].date >= start_date
        /\ transactions[t].date <= end_date}

OfType(T, type) == {t \in T : transactions[t].type = type}

generate_summary_report(user_id, start_date, end_date) ==
    LET s == parse_date(start_date)
        e == parse_date(end_date)
        entries == EntriesIn(user_id, s, e)
        income == Sum(Amounts, OfType(entries, "income"))
        expense == Sum(Amounts, OfType(entries, "expense"))
        days == e - s + 1
    IN  IF s = None \/ e = None THEN [res |-> "error"]
        ELSE [res |-> "ok",
              income |-> income,
              expense |-> expense,
              balance |-> income - expense,
              savings_rate |-> IF income > 0
                               THEN Frac((income - expense) * 100, income) ELSE Zero,
              daily_income |-> IF days > 0 THEN Frac(income, days) ELSE Zero,
              daily_expense |-> IF days > 0 THEN Frac(expense, days) ELSE Zero,
              transaction_count |-> Cardinality(entries)]
\* list.sort(key=lambda x: x['total'], reverse=True): descending by total, the
\* entries of equal total in the order they had
RECURSIVE SortByTotal(_)
SortByTotal(list) ==
    IF list = <<>> THEN <<>>
    ELSE LET sorted == SortByTotal(SubSeq(list, 1, Len(list) - 1))
             c == list[Len(list)]
             k == Cardinality({i \in 1 .. Len(sorted) : sorted[i].total >= c.total})
         IN  SubSeq(sorted, 1, k) \o <<c>> \o SubSeq(sorted, k + 1, Len(sorted))

\* the per-category totals with only the first entry of a category counted
SummaryCategories_FirstOnly(rows) ==
    LET category_id(i) == transactions[rows[i]].category_id
        first == {i \in 1 .. Len(rows) : \A j \in 1 .. (i - 1) : category_id(j) # category_id(i)}
        position(k) == CHOOSE i \in first : Cardinality({j \in first : j <= i}) = k
        category_totals ==
            [k \in 1 .. Cardinality(first) |->
                [id |-> category_id(position(k)),
                 type |-> transactions[rows[position(k)]].type,
                 total |-> transactions[rows[position(k)]].amount]]
    IN  [income |-> SortByTotal(SelectSeq(category_totals, LAMBDA c : c.type = "income")),
         expense |-> SortByTotal(SelectSeq(category_totals, LAMBDA c : c.type = "expense"))]

\* lines 46-68 of generate_summary_report: the per-category totals of the
\* entries, rows being the entries in the order the query returned them. A
\* category gets the type of its first entry and the amounts of all of them.
SummaryCategories(rows) ==
    LET category_id(i) == transactions[rows[i]].category_id
        \* the positions at which a category is met for the first time
        first == {i \in 1 .. Len(rows) : \A j \in 1 .. (i - 1) : category_id(j) # category_id(i)}
        position(k) == CHOOSE i \in first : Cardinality({j \in first : j <= i}) = k
        category_totals ==
            [k \in 1 .. Cardinality(first) |->
                [id |-> category_id(position(k)),
                 type |-> transactions[rows[position(k)]].type,
                 total |-> Sum(Amounts, {rows[i] : i \in {j \in 1 .. Len(rows) :
                                             category_id(j) = category_id(position(k))}})]]
    IN  [income |-> SortByTotal(SelectSeq(category_totals, LAMBDA c : c.type = "income")),
         expense |-> SortByTotal(SelectSeq(category_totals, LAMBDA c : c.type = "expense"))]


generate_category_report(user_id, start_date, end_date, category_type) ==
    LET s == parse_date(start_date)
        e == parse_date(end_date)
        entries == OfType(EntriesIn(user_id, s, e), category_type)
        total_amount == Sum(Amounts, entries)
        category_ids == {transactions[t].category_id : t \in entries}
    IN  IF s = None \/ e = None THEN [res |-> "error"]
        ELSE [res |-> "ok",
              type |-> category_type,
              total_amount |-> total_amount,
              categories |->
                  [c \in category_ids |->
                      LET total == Sum(Amounts, InCategory(entries, c))
                      IN  [total |-> total,
                           percentage |-> IF total_amount > 0
                                          THEN Frac(total * 100, total_amount) ELSE Zero,
                           transaction_count |-> Cardinality(InCategory(entries, c))]],
              transaction_count |-> Cardinality(entries)]

\* start_month as generate_monthly_report is handed it: None when the
\* parameters have none, BadMonth for a string that is no YYYY-MM, ThisMonth
\* for the month that holds every day of the model
BadMonth == -97
ThisMonth == 0

\* With ThisMonth and months_count > 0 the first month holds every stored
\* entry. An unparsable start_month falls back to the twelve months before the
\* current one, which hold no entry. A missing start_month is no string, so
\* start_date is None and line 203 reads start_date.year. The trends compare
\* the last six months, which hold no entry here, and stay 'stable'.
generate_monthly_report(user_id, start_month, months_count) ==
    LET entries == IF start_month = ThisMonth /\ months_count > 0
                   THEN {t \in DOMAIN transactions : transactions[t].user_id = user_id}
                   ELSE {}
        total_income == Sum(Amounts, OfType(entries, "income"))
        total_expense == Sum(Amounts, OfType(entries, "expense"))
    IN  IF start_month = None THEN [res |-> "AttributeError"]
        ELSE [res |-> "ok",
              months |-> months_count,
              total_income |-> total_income,
              total_expense |-> total_expense,
              total_balance |-> total_income - total_expense,
              avg_monthly_income |-> IF months_count > 0
                                     THEN Frac(total_income, months_count) ELSE Zero,
              avg_monthly_expense |-> IF months_count > 0
                                      THEN Frac(total_expense, months_count) ELSE Zero]

\* generate_budget_report called with date strings: parse_date makes
\* datetimes of them, and max(budget.start_date, start_date) at line 361
\* compares the date of the budget with a datetime, which raises TypeError
BudgetReportOfStrings(user_id, start_date, end_date) ==
    LET s == parse_date(start_date)
        e == parse_date(end_date)
    IN  IF s = None \/ e = None THEN [res |-> "error"]
        ELSE IF ReportedBudgets(user_id, s, e) # {} THEN [res |-> "TypeError"]
        ELSE [res |-> "ok", budgets |-> <<>>]

generate_goals_report(user_id) ==
    LET mine == {g \in DOMAIN goals : goals[g].user_id = user_id}
        entry == [g \in mine |-> GoalsReportEntry(goals[g])]
        total_saved == Sum([g \in mine |-> goals[g].current_amount], mine)
        total_target == Sum([g \in mine |-> goals[g].target_amount], mine)
        completed == {g \in mine : goals[g].is_completed}
    IN  IF \E g \in mine : entry[g].res # "ok" THEN [res |-> "ZeroDivisionError"]
        ELSE [res |-> "ok",
              goals |-> entry,
              total_goals |-> Cardinality(mine),
              completed_goals |-> Cardinality(completed),
              total_saved |-> total_saved,
              total_target |-> total_target,
              overall_progress |-> Percent(total_saved, total_target),
              completion_rate |-> IF mine # {}
                                  THEN Frac(Cardinality(completed) * 100, Cardinality(mine))
                                  ELSE Zero]

\* the forecast projects the entries with is_recurring set; no call here
\* passes 'is_recurring', so create_transaction stores False and none is
generate_cash_flow_forecast(user_id, months) ==
    [res |-> "ok",
     months |-> months,
     total_projected_income |-> 0,
     total_projected_expense |-> 0,
     total_projected_balance |-> 0,
     recurring_transactions_count |-> 0]

\* parameters.get('months_count', 12) and parameters.get('months', 6)
DefaultMonthsCount == 12
DefaultMonths == 6

\* A 'period' overrides the dates with the date objects of get_date_range;
\* 'day' is the only period here, and its range is today. Dates given in the
\* parameters themselves are strings.
generate_report(user_id, report_type, parameters) ==
    LET has(k) == k \in DOMAIN parameters
        get(k) == IF has(k) THEN parameters[k] ELSE None
        start_date == IF has("period") THEN today ELSE get("start_date")
        end_date == IF has("period") THEN today ELSE get("end_date")
    IN  IF report_type = "summary"
        THEN generate_summary_report(user_id, start_date, end_date)
        ELSE IF report_type = "category"
        THEN generate_category_report(user_id, start_date, end_date,
                 IF has("category_type") THEN parameters["category_type"] ELSE "expense")
        ELSE IF report_type = "monthly"
        THEN generate_monthly_report(user_id, get("start_month"),
                 IF has("months_count") THEN parameters["months_count"]
                 ELSE DefaultMonthsCount)
        ELSE IF report_type = "budget"
        THEN IF has("period") THEN generate_budget_report(user_id, start_date, end_date)
             ELSE BudgetReportOfStrings(user_id, start_date, end_date)
        ELSE IF report_type = "goals"
        THEN generate_goals_report(user_id)
        ELSE IF report_type = "cash_flow_forecast"
        THEN generate_cash_flow_forecast(user_id, DefaultMonths)
        ELSE [res |-> "error"]

\* lines 252-256 of generate_report: the parameters dict of the caller after
\* the call. With a 'period' the date objects of get_date_range are written
\* into it under 'start_date' and 'end_date'; the range of 'day' is today.
ParametersAfter(parameters) ==
    IF "period" \in DOMAIN parameters
    THEN [k \in DOMAIN parameters \cup {"start_date", "end_date"} |->
             IF k \in {"start_date", "end_date"} THEN today ELSE parameters[k]]
    ELSE parameters

\* lines 209-255 of generate_monthly_report: monthly_data, one entry for each
\* of the months_count months from the first of (year, month) on
MonthlyData(user_id, year, month, months_count) ==
    [i \in 1 .. months_count |->
        LET k == (month - 1) + (i - 1)
            y == year + (k \div 12)
            m == (k % 12) + 1
            entries == EntriesIn(user_id, toordinal(y, m, 1),
                                 toordinal(y, m, DaysInMonth(y, m)))
            income == Sum(Amounts, OfType(entries, "income"))
            expense == Sum(Amounts, OfType(entries, "expense"))
        IN  [year |-> y, month |-> m,
             income |-> income, expense |-> expense, balance |-> income - expense]]

\* 'up' if change > 5 else ('down' if change < -5 else 'stable')
Direction(change) ==
    IF FracLess(Frac(5, 1), change) THEN "up"
    ELSE IF FracLess(change, Frac(-5, 1)) THEN "down"
    ELSE "stable"

\* lines 265-303: the trends of the last three months against the three
\* before them. The means are the sums over 3, so the change
\* (avg_last - avg_prev) / avg_prev * 100 is (last - prev) * 100 / prev.
Trends(monthly_data) ==
    LET n == Len(monthly_data)
        last_3(f) == Sum([i \in 1 .. n |-> monthly_data[i][f]], (n - 2) .. n)
        prev_3(f) == Sum([i \in 1 .. n |-> monthly_data[i][f]], (n - 5) .. (n - 3))
        change(f, by) == Quot((last_3(f) - prev_3(f)) * 100, by)
    IN  IF n < 6
        THEN [income |-> "stable", expense |-> "stable", balance |-> "stable"]
        ELSE [income |-> IF prev_3("income") > 0
                         THEN Direction(change("income", prev_3("income")))
                         ELSE "stable",
              expense |-> IF prev_3("expense") > 0
                          THEN Direction(change("expense", prev_3("expense")))
                          ELSE "stable",
              balance |-> IF prev_3("balance") # 0
                          THEN Direction(change("balance",
                                   IF prev_3("balance") < 0 THEN 0 - prev_3("balance")
                                   ELSE prev_3("balance")))
                          ELSE "stable"]

\* lines 202-207: end_date starts at the first of the start month and is set
\* months_count times to the day before the first of the month after its own
RECURSIVE PeriodEnd(_, _, _, _)
PeriodEnd(year, month, day, months_count) ==
    IF months_count = 0 THEN toordinal(year, month, day)
    ELSE LET m == (month % 12) + 1
             y == year + (month \div 12)
             \* the day before date(y, m, 1)
             py == IF m = 1 THEN y - 1 ELSE y
             pm == IF m = 1 THEN 12 ELSE m - 1
         IN  PeriodEnd(py, pm, DaysInMonth(py, pm), months_count - 1)

----------------------------------------------------------------------------
(* Saved reports and report schedules: reports/models.py, reports/controllers.py *)

\* Report.__init__
Report(type, user_id, data) ==
    [type |-> type, user_id |-> user_id, data |-> data, generated_at |-> today]

\* ReportSchedule.__init__: is_active defaults to True, last_run to None
ReportSchedule(frequency, user_id, next_run) ==
    [frequency |-> frequency, user_id |-> user_id, is_active |-> TRUE,
     last_run |-> None, next_run |-> next_run]

\* the result of a report controller: what it returns and the committed tables
ReportResult(res, r, s) == [res |-> res, reports |-> r, report_schedules |-> s]

\* the daily and weekly branches and the default; the monthly branch needs
\* the calendar, which day numbers do not carry, and no call here asks for it
calculate_next_run(frequency) ==
    IF frequency = "daily" THEN today + 1
    ELSE IF frequency = "weekly" THEN today + 7
    ELSE today + 7

\* a save that flags the report as saved before it stores it
save_report_Flagged(user_id, type, data, fault) ==
    ReportResult(Returned(fault),
                 commit(With(reports, NextId(reports),
                             Report(type, user_id, [data EXCEPT !.res = "saved"])),
                        reports, fault),
                 report_schedules)

save_report(user_id, type, data, fault) ==
    ReportResult(Returned(fault),
                 commit(With(reports, NextId(reports), Report(type, user_id, data)),
                        reports, fault),
                 report_schedules)

get_report(report_id, user_id) ==
    IF report_id \notin DOMAIN reports THEN None
    ELSE IF user_id # None /\ user_id # 0 /\ reports[report_id].user_id # user_id THEN None
    ELSE report_id

\* Report.query.filter_by(id=report_id, user_id=user_id).first()
ReportOf(report_id, user_id) ==
    IF report_id \in DOMAIN reports /\ reports[report_id].user_id = user_id
    THEN report_id ELSE None

delete_report(report_id, user_id, fault) ==
    LET id == ReportOf(report_id, user_id)
    IN  IF id = None THEN ReportResult("False", reports, report_schedules)
        ELSE ReportResult(IF fault = "ok" THEN "True" ELSE "False",
                          commit(Without(reports, id), reports, fault), report_schedules)

create_report_schedule(user_id, schedule_data, fault) ==
    LET next_run == calculate_next_run(schedule_data["frequency"])
        schedule == ReportSchedule(schedule_data["frequency"], user_id, next_run)
        pending == With(report_schedules, NextId(report_schedules), schedule)
    IN  ReportResult(Returned(fault), reports, commit(pending, report_schedules, fault))

\* ReportSchedule.query.filter_by(id=schedule_id, user_id=user_id).first()
ScheduleOf(schedule_id, user_id) ==
    IF schedule_id \in DOMAIN report_schedules
           /\ report_schedules[schedule_id].user_id = user_id
    THEN schedule_id ELSE None

\* an update that sets the frequency and leaves next_run as it was
update_report_schedule_KeepsNextRun(schedule_id, user_id, updated_data, fault) ==
    LET id == ScheduleOf(schedule_id, user_id)
        old == report_schedules[id]
        has(k) == k \in DOMAIN updated_data
        schedule ==
            [old EXCEPT
                !.frequency = IF has("frequency") THEN updated_data["frequency"] ELSE @,
                !.is_active = IF has("is_active") THEN updated_data["is_active"] ELSE @]
        pending == With(report_schedules, id, schedule)
    IN  IF id = None THEN ReportResult("None", reports, report_schedules)
        ELSE ReportResult(Returned(fault), reports, commit(pending, report_schedules, fault))

update_report_schedule(schedule_id, user_id, updated_data, fault) ==
    LET id == ScheduleOf(schedule_id, user_id)
        old == report_schedules[id]
        has(k) == k \in DOMAIN updated_data
        schedule ==
            [old EXCEPT
                !.frequency = IF has("frequency") THEN updated_data["frequency"] ELSE @,
                !.next_run = IF has("frequency")
                             THEN calculate_next_run(updated_data["frequency"]) ELSE @,
                !.is_active = IF has("is_active") THEN updated_data["is_active"] ELSE @]
        pending == With(report_schedules, id, schedule)
    IN  IF id = None THEN ReportResult("None", reports, report_schedules)
        ELSE ReportResult(Returned(fault), reports, commit(pending, report_schedules, fault))

delete_report_schedule(schedule_id, user_id, fault) ==
    LET id == ScheduleOf(schedule_id, user_id)
    IN  IF id = None THEN ReportResult("False", reports, report_schedules)
        ELSE ReportResult(IF fault = "ok" THEN "True" ELSE "False",
                          reports, commit(Without(report_schedules, id), report_schedules, fault))

----------------------------------------------------------------------------
(* Inputs of the calls *)

\* an id no row ever has
MissingId == 0

GoalIds == 0 .. MaxGoals
TargetAmounts == {0, 2, 4}
CurrentAmounts == {-1, 0, 3}
\* no deadline, an unparsable one, one that passes during the run, one a month away
DeadlineInputs == {None, BadDate, FirstDay, MaxDay + 30}
ContributionAmounts == {-1, 0, 1}
ContributionDates == {None, BadDate, FirstDay - 1}

GoalData == [target_amount : TargetAmounts, current_amount : CurrentAmounts \ {-1},
             deadline : DeadlineInputs]

\* the dicts update_goal is called with: one key, both amounts, or none
GoalUpdates ==
    [target_amount : TargetAmounts]
        \cup [current_amount : CurrentAmounts]
        \cup [deadline : DeadlineInputs]
        \cup [target_amount : TargetAmounts, current_amount : CurrentAmounts]
        \cup {<<>>}

ContributionData == [amount : ContributionAmounts, date : ContributionDates]

CategoryIds == 0 .. MaxCategories
TransactionIds == 0 .. MaxTransactions
BudgetIds == 0 .. MaxBudgets
ReportIds == 0 .. MaxReports
ScheduleIds == 0 .. MaxSchedules

CategoryData == [name : {"food"}, type : {"expense"}]

\* every budget here runs from FirstDay to MaxDay, and the entries are expenses
\* of FirstDay, so they fall in its window
TransactionData ==
    [type : {"expense"}, amount : {2}, date : {FirstDay, BadDate}, category_id : CategoryIds]

\* the dicts update_transaction is called with; the route sanitizes the
\* request body without checking it, so the amount is any number
TransactionUpdates == [amount : {-1, 2}] \cup [date : {BadDate}]

Allocation(category_id, amount) == [category_id |-> category_id, amount |-> amount]

\* the allocation lists: none, one category, one category twice, two
\* categories, a category that does not exist, an entry without an amount
AllocationLists ==
    {<<>>,
     <<Allocation(1, 1)>>,
     <<Allocation(1, 1), Allocation(1, 1)>>,
     <<Allocation(1, 1), Allocation(2, 1)>>,
     <<Allocation(MissingId, 1)>>,
     <<Allocation(1, None)>>}

BudgetAmounts == {0, 3}

BudgetData ==
    [amount : BudgetAmounts, start_date : {FirstDay, BadDate}, end_date : {MaxDay}]
        \cup [amount : BudgetAmounts, start_date : {FirstDay}, end_date : {MaxDay},
              categories : AllocationLists]

BudgetUpdates ==
    [amount : BudgetAmounts]
        \cup [start_date : {BadDate}]
        \cup [categories : AllocationLists]

\* the report types of generate_report, and one it does not know
ReportTypes ==
    {"summary", "category", "monthly", "budget", "goals", "cash_flow_forecast", "unknown"}

\* the parameters of a report: dates that parse, a start date that does not,
\* no end date, a period, a start month that parses, one that does not, no
\* months at all, and none of these
ReportParameters ==
    {[start_date |-> FirstDay, end_date |-> MaxDay],
     [start_date |-> BadDate, end_date |-> MaxDay],
     [start_date |-> FirstDay],
     [period |-> "day"],
     [start_month |-> ThisMonth],
     [start_month |-> BadMonth],
     [start_month |-> ThisMonth, months_count |-> 0],
     [category_type |-> "income"]}

ScheduleData == [frequency : {"daily", "weekly"}]
ScheduleUpdates == [frequency : {"weekly"}] \cup [is_active : {FALSE}]

----------------------------------------------------------------------------
(* One step per call *)

\* op: the controller called; res: what it returned; foreign: the call named a
\* row owned by another user; absent: what the same call returns for MissingId
Call(op, res, foreign, absent) ==
    [op |-> op, res |-> res, foreign |-> foreign, absent |-> absent]

\* the row id of table is there and its owner is not user
Foreign(table, id, user) == id \in DOMAIN table /\ table[id].user_id # user

\* the rows of all tables
Population ==
    Cardinality(DOMAIN goals) + Cardinality(DOMAIN contributions)
        + Cardinality(DOMAIN categories) + Cardinality(DOMAIN transactions)
        + Cardinality(DOMAIN budgets) + Cardinality(DOMAIN budget_categories)
        + Cardinality(DOMAIN reports) + Cardinality(DOMAIN report_schedules)

\* None or ok, for a read that returns a row
Found(id) == [res |-> IF id = None THEN "None" ELSE "ok"]

Init ==
    /\ today = FirstDay
    /\ goals = <<>>
    /\ contributions = <<>>
    /\ categories = <<>>
    /\ transactions = <<>>
    /\ budgets = <<>>
    /\ budget_categories = <<>>
    /\ reports = <<>>
    /\ report_schedules = <<>>
    /\ last = Call("none", "ok", FALSE, "ok")
    /\ sessions = <<>>

\* the clock moves on between calls
Tick ==
    /\ today < MaxDay
    /\ today' = today + 1
    /\ UNCHANGED <<goalTables, ledgerTables, budgetTables, reportTables, last>>

GoalStep(op, foreign, r, r0) ==
    /\ goals' = r.goals
    /\ contributions' = r.contributions
    /\ sessions' = sessions
    /\ last' = Call(op, r.res, foreign, r0.res)
    /\ UNCHANGED <<today, ledgerTables, budgetTables, reportTables>>

LedgerStep(op, foreign, r, r0) ==
    /\ categories' = r.categories
    /\ transactions' = r.transactions
    /\ last' = Call(op, r.res, foreign, r0.res)
    /\ UNCHANGED <<today, goalTables, budgetTables, reportTables>>

BudgetStep(op, foreign, r, r0) ==
    /\ budgets' = r.budgets
    /\ budget_categories' = r.budget_categories
    /\ last' = Call(op, r.res, foreign, r0.res)
    /\ UNCHANGED <<today, goalTables, ledgerTables, reportTables>>

ReportStep(op, foreign, r, r0) ==
    /\ reports' = r.reports
    /\ report_schedules' = r.report_schedules
    /\ last' = Call(op, r.res, foreign, r0.res)
    /\ UNCHANGED <<today, goalTables, ledgerTables, budgetTables>>

ReadStep(op, foreign, r, r0) ==
    /\ last' = Call(op, r.res, foreign, r0.res)
    /\ UNCHANGED <<today, goalTables, ledgerTables, budgetTables, reportTables>>

(* the goal package; data and updates are the dicts the calls are tried with *)

CreateGoal(data) ==
    \E u \in Users, d \in data, f \in Faults :
        /\ NextId(goals) <= MaxGoals
        /\ GoalStep("create_goal", FALSE, create_goal(u, d, f), [res |-> "ok"])

UpdateGoal(updates) ==
    \E u \in Users, id \in GoalIds, d \in updates, f \in Faults :
        GoalStep("update_goal", Foreign(goals, id, u),
                 update_goal(id, u, d, f), update_goal(MissingId, u, d, f))

DeleteGoal ==
    \E u \in Users, id \in GoalIds, f \in Faults :
        GoalStep("delete_goal", Foreign(goals, id, u),
                 delete_goal(id, u, f), delete_goal(MissingId, u, f))

AddContribution(data) ==
    \E u \in Users, id \in GoalIds, d \in data, f \in Faults :
        /\ NextId(contributions) <= MaxContribs
        /\ GoalStep("add_goal_contribution", Foreign(goals, id, u),
                    add_contribution(id, u, d, f), add_contribution(MissingId, u, d, f))

GetGoal ==
    \E u \in Users, id \in GoalIds :
        ReadStep("get_goal", Foreign(goals, id, u),
                 Found(get_goal(id, u)), Found(get_goal(MissingId, u)))

GetGoalContributions ==
    \E u \in Users, id \in GoalIds :
        ReadStep("get_goal_contributions", Foreign(goals, id, u),
                 get_goal_contributions(id, u), get_goal_contributions(MissingId, u))

CalculateGoalProgress ==
    \E u \in Users, id \in GoalIds :
        ReadStep("calculate_goal_progress", Foreign(goals, id, u),
                 calculate_goal_progress(id, u), calculate_goal_progress(MissingId, u))

(* the ledger *)

CreateCategory ==
    \E u \in Users, d \in CategoryData, f \in Faults :
        /\ NextId(categories) <= MaxCategories
        /\ LedgerStep("create_category", FALSE,
                      create_category(d.name, d.type, u, FALSE, f), [res |-> "ok"])

CreateTransaction(data) ==
    \E u \in Users, d \in data, f \in Faults :
        /\ NextId(transactions) <= MaxTransactions
        /\ LedgerStep("create_transaction", FALSE, create_transaction(u, d, f), [res |-> "ok"])

\* a category of the system, or one a user owns that is flagged is_default
SeedCategory ==
    \E u \in Users \cup {None}, d \in CategoryData, f \in Faults :
        /\ NextId(categories) <= MaxCategories
        /\ LedgerStep("create_category", FALSE,
                      create_category(d.name, d.type, u, TRUE, f), [res |-> "ok"])

UpdateCategory ==
    \E u \in Users, id \in CategoryIds, d \in [name : {"meals"}], f \in Faults :
        LedgerStep("update_category", Foreign(categories, id, u),
                   update_category(id, u, d, f), update_category(MissingId, u, d, f))

DeleteCategory ==
    \E u \in Users, id \in CategoryIds, f \in Faults :
        LedgerStep("delete_category", Foreign(categories, id, u),
                   delete_category(id, u, f), delete_category(MissingId, u, f))

GetTransaction ==
    \E u \in Users, id \in TransactionIds :
        ReadStep("get_transaction", Foreign(transactions, id, u),
                 Found(get_transaction(id, u)), Found(get_transaction(MissingId, u)))

UpdateTransaction(updates) ==
    \E u \in Users, id \in TransactionIds, d \in updates, f \in Faults :
        LedgerStep("update_transaction", Foreign(transactions, id, u),
                   update_transaction(id, u, d, f), update_transaction(MissingId, u, d, f))

DeleteTransaction ==
    \E u \in Users, id \in TransactionIds, f \in Faults :
        LedgerStep("delete_transaction", Foreign(transactions, id, u),
                   delete_transaction(id, u, f), delete_transaction(MissingId, u, f))

(* the budgets *)

\* the fault, if any, hits the first commit of create_budget or the second
CreateBudget(data) ==
    \E u \in Users, d \in data, f \in Faults, at \in 1 .. 2 :
        /\ NextId(budgets) <= MaxBudgets
        /\ BudgetStep("create_budget", FALSE,
                      create_budget(u, d, IF at = 1 THEN f ELSE "ok",
                                          IF at = 2 THEN f ELSE "ok"),
                      [res |-> "ok"])

GetBudget ==
    \E u \in Users, id \in BudgetIds :
        ReadStep("get_budget", Foreign(budgets, id, u),
                 Found(get_budget(id, u)), Found(get_budget(MissingId, u)))

UpdateBudget(updates) ==
    \E u \in Users, id \in BudgetIds, d \in updates, f \in Faults :
        BudgetStep("update_budget", Foreign(budgets, id, u),
                   update_budget(id, u, d, f), update_budget(MissingId, u, d, f))

DeleteBudget ==
    \E u \in Users, id \in BudgetIds, f \in Faults :
        BudgetStep("delete_budget", Foreign(budgets, id, u),
                   delete_budget(id, u, f), delete_budget(MissingId, u, f))

CalculateBudgetProgress ==
    \E u \in Users, id \in BudgetIds :
        ReadStep("calculate_budget_progress", Foreign(budgets, id, u),
                 calculate_budget_progress(id, u), calculate_budget_progress(MissingId, u))

GetBudgetCategories ==
    \E u \in Users, id \in BudgetIds :
        ReadStep("get_budget_categories", Foreign(budgets, id, u),
                 get_budget_categories(id, u), get_budget_categories(MissingId, u))

(* the saved reports and the schedules *)

\* generate_report as the route calls it with 'save' unset: nothing is stored
GenerateReport(types, parameterSets) ==
    \E u \in Users, t \in types, p \in parameterSets :
        ReadStep("generate_report", FALSE, generate_report(u, t, p), [res |-> "ok"])

\* generate_new_report with 'save' and 'name' set: the report is generated
\* and, unless the generator returned an error or raised, saved
SaveReport(types, parameterSets) ==
    \E u \in Users, t \in types, p \in parameterSets, f \in Faults :
        LET data == generate_report(u, t, p)
        IN  /\ NextId(reports) <= MaxReports
            /\ IF data.res = "ok"
               THEN ReportStep("save_report", FALSE, save_report(u, t, data, f),
                               [res |-> "ok"])
               ELSE ReadStep("generate_report", FALSE, data, [res |-> "ok"])

GetReport ==
    \E u \in Users, id \in ReportIds :
        ReadStep("get_report", Foreign(reports, id, u),
                 Found(get_report(id, u)), Found(get_report(MissingId, u)))

DeleteReport ==
    \E u \in Users, id \in ReportIds, f \in Faults :
        ReportStep("delete_report", Foreign(reports, id, u),
                   delete_report(id, u, f), delete_report(MissingId, u, f))

CreateReportSchedule ==
    \E u \in Users, d \in ScheduleData, f \in Faults :
        /\ NextId(report_schedules) <= MaxSchedules
        /\ ReportStep("create_report_schedule", FALSE,
                      create_report_schedule(u, d, f), [res |-> "ok"])

UpdateReportSchedule ==
    \E u \in Users, id \in ScheduleIds, d \in ScheduleUpdates, f \in Faults :
        ReportStep("update_report_schedule", Foreign(report_schedules, id, u),
                   update_report_schedule(id, u, d, f),
                   update_report_schedule(MissingId, u, d, f))

DeleteReportSchedule ==
    \E u \in Users, id \in ScheduleIds, f \in Faults :
        ReportStep("delete_report_schedule", Foreign(report_schedules, id, u),
                   delete_report_schedule(id, u, f), delete_report_schedule(MissingId, u, f))

----------------------------------------------------------------------------
(* The goals over time *)

NextGoals ==
    \/ Tick
    \/ CreateGoal(GoalData)
    \/ UpdateGoal(GoalUpdates)
    \/ DeleteGoal
    \/ AddContribution(ContributionData)
    \/ CalculateGoalProgress

SpecGoals == Init /\ [][NextGoals]_vars

----------------------------------------------------------------------------
(* The budgets and the ledger they are measured against *)

NextBudgets ==
    \/ CreateCategory
    \/ CreateTransaction(TransactionData)
    \/ UpdateTransaction(TransactionUpdates)
    \/ DeleteTransaction
    \/ CreateBudget(BudgetData)
    \/ UpdateBudget(BudgetUpdates)
    \/ DeleteBudget
    \/ CalculateBudgetProgress

SpecBudgets == Init /\ [][NextBudgets]_vars

----------------------------------------------------------------------------
(* All the packages together, over a store of at most MaxRows rows *)

\* one dict per call is enough here: what matters is whose row the call names
SomeGoalData == [target_amount : {2}, current_amount : {0}, deadline : {None}]
SomeGoalUpdates == [target_amount : {4}]
SomeContributionData == [amount : {1}, date : {None}]
SomeBudgetData ==
    [amount : {3}, start_date : {FirstDay}, end_date : {MaxDay}]
        \cup [amount : {3}, start_date : {FirstDay}, end_date : {MaxDay},
              categories : {<<Allocation(1, 1)>>}]
SomeBudgetUpdates == [amount : {0}] \cup [categories : {<<Allocation(1, 1)>>}]

\* there is room for one more row
Room == Population < MaxRows

Next ==
    \/ Room /\ CreateGoal(SomeGoalData)
    \/ GetGoal
    \/ UpdateGoal(SomeGoalUpdates)
    \/ DeleteGoal
    \/ Room /\ AddContribution(SomeContributionData)
    \/ GetGoalContributions
    \/ CalculateGoalProgress
    \/ Room /\ CreateCategory
    \/ Room /\ CreateTransaction(TransactionData)
    \/ GetTransaction
    \/ UpdateTransaction(TransactionUpdates)
    \/ DeleteTransaction
    \/ Room /\ CreateBudget(SomeBudgetData)
    \/ GetBudget
    \/ UpdateBudget(SomeBudgetUpdates)
    \/ DeleteBudget
    \/ CalculateBudgetProgress
    \/ GetBudgetCategories
    \/ Room /\ SaveReport({"cash_flow_forecast"}, {[category_type |-> "expense"]})
    \/ GetReport
    \/ DeleteReport
    \/ Room /\ CreateReportSchedule
    \/ UpdateReportSchedule
    \/ DeleteReportSchedule

Spec == Init /\ [][Next]_vars

----------------------------------------------------------------------------
(* The reports over the goals, the ledger and the budgets they are drawn
   from, over a store of at most MaxRows rows *)

\* income and expense entries of FirstDay, in the first category
ReportedTransactionData ==
    [type : {"income", "expense"}, amount : {2}, date : {FirstDay}, category_id : {1}]

NextReports ==
    \/ Room /\ CreateGoal(SomeGoalData)
    \/ UpdateGoal(SomeGoalUpdates)
    \/ DeleteGoal
    \/ Room /\ CreateCategory
    \/ Room /\ CreateTransaction(ReportedTransactionData)
    \/ UpdateTransaction([amount : {3}])
    \/ DeleteTransaction
    \/ Room /\ CreateBudget(SomeBudgetData)
    \/ UpdateBudget(SomeBudgetUpdates)
    \/ DeleteBudget
    \/ GenerateReport(ReportTypes, ReportParameters)
    \/ Room /\ SaveReport(ReportTypes, ReportParameters)
    \/ GetReport
    \/ DeleteReport

SpecReports == Init /\ [][NextReports]_vars

----------------------------------------------------------------------------
(* The ledger: categories of the system and of the users, and the entries
   filed under them *)

\* entries filed under any category id, and moved to any
LedgerTransactionData ==
    [type : {"expense"}, amount : {2}, date : {FirstDay}, category_id : CategoryIds]

NextLedger ==
    \/ CreateCategory
    \/ SeedCategory
    \/ UpdateCategory
    \/ DeleteCategory
    \/ CreateTransaction(LedgerTransactionData)
    \/ UpdateTransaction([category_id : CategoryIds])
    \/ DeleteTransaction

SpecLedger == Init /\ [][NextLedger]_vars

----------------------------------------------------------------------------
(* The period of a budget *)

\* budgets created with a period the validator accepts, and updates that
\* move one end of it or give a date that does not parse
DatedBudgetData ==
    {d \in [amount : {3}, start_date : {FirstDay, MaxDay}, end_date : {FirstDay, MaxDay}] :
        d.end_date >= d.start_date}
DatedBudgetUpdates ==
    [start_date : {FirstDay, MaxDay, BadDate}]
        \cup [end_date : {FirstDay - 1, FirstDay, MaxDay, BadDate}]
        \cup [is_active : BOOLEAN]

NextBudgetDates ==
    \/ CreateBudget(DatedBudgetData)
    \/ UpdateBudget(DatedBudgetUpdates)
    \/ DeleteBudget

SpecBudgetDates == Init /\ [][NextBudgetDates]_vars

----------------------------------------------------------------------------
(* The monthly report over a ledger of dated entries *)

\* income of the middle of February and of May 2024 and an expense of May, so
\* that a report of six months from December or February has entries in each half
MonthlyTransactionData ==
    {d \in [type : {"income", "expense"}, amount : {20},
            date : {toordinal(2024, 2, 15), toordinal(2024, 5, 15)}, category_id : {1}] :
        d.type = "expense" => d.date = toordinal(2024, 5, 15)}

\* start_month and months_count of a request, start_month parsed
MonthlyRequests ==
    {q \in [year : {2023, 2024}, month : {2, 12}, months_count : {1, 2, 6}] :
        q.year = 2023 <=> q.month = 12}

\* generate_monthly_report(user_id, start_month, months_count) with a
\* start_month that parses: the end of the period, the monthly data and the trends
GenerateMonthlyReport ==
    \E u \in Users, q \in MonthlyRequests :
        /\ last' = [op |-> "generate_monthly_report", res |-> "ok",
                    foreign |-> FALSE, absent |-> "ok",
                    user_id |-> u, request |-> q,
                    end_date |-> PeriodEnd(q.year, q.month, 1, q.months_count),
                    monthly_data |-> MonthlyData(u, q.year, q.month, q.months_count),
                    trends |-> Trends(MonthlyData(u, q.year, q.month, q.months_count))]
        /\ UNCHANGED <<today, goalTables, ledgerTables, budgetTables, reportTables>>

NextMonthly ==
    \/ CreateCategory
    \/ CreateTransaction(MonthlyTransactionData)
    \/ UpdateTransaction([amount : {-1, 22}])
    \/ GenerateMonthlyReport

SpecMonthly == Init /\ [][NextMonthly]_vars

----------------------------------------------------------------------------
(* The date ranges of the periods *)

\* get_date_range(period, reference_date) for every named period and one
\* unnamed, over the first, the middle and the last days of the months of a
\* common year and a leap year
GetDateRange ==
    \E period \in {"day", "week", "month", "quarter", "year", "all", "decade"},
       year \in {2023, 2024}, month \in 1 .. 12, day \in {1, 15, 28, 31} :
        LET ref_date == [year |-> year, month |-> month,
                         day |-> Min(day, DaysInMonth(year, month))]
        IN  /\ last' = [op |-> "get_date_range", res |-> "ok",
                        foreign |-> FALSE, absent |-> "ok",
                        period |-> period, reference_date |-> ref_date,
                        range |-> get_date_range(period, ref_date)]
            /\ UNCHANGED <<today, goalTables, ledgerTables, budgetTables, reportTables>>

NextDateRange == GetDateRange

SpecDateRange == Init /\ [][NextDateRange]_vars

----------------------------------------------------------------------------
(* The summary report over a ledger of income and expenses *)

\* income and expenses of FirstDay under any category
SummaryTransactionData ==
    [type : {"income", "expense"}, amount : {2, 3}, date : {FirstDay}, category_id : CategoryIds]

\* generate_summary_report(user_id, FirstDay, MaxDay); the query has no ORDER
\* BY, so the entries come back in any order
GenerateSummaryReport ==
    \E u \in Users :
        LET entries == EntriesIn(u, FirstDay, MaxDay)
        IN  \E rows \in {r \in [1 .. Cardinality(entries) -> entries] :
                            \A i, j \in DOMAIN r : r[i] = r[j] => i = j} :
                /\ last' = [op |-> "generate_summary_report", res |-> "ok",
                            foreign |-> FALSE, absent |-> "ok",
                            summary |-> generate_summary_report(u, FirstDay, MaxDay),
                            categories |-> SummaryCategories(rows)]
                /\ UNCHANGED <<today, goalTables, ledgerTables, budgetTables, reportTables>>

NextSummary ==
    \/ CreateCategory
    \/ CreateTransaction(SummaryTransactionData)
    \/ GenerateSummaryReport

SpecSummary == Init /\ [][NextSummary]_vars

----------------------------------------------------------------------------
(* The allocations of the budgets and the categories they name *)

NextAllocations ==
    \/ CreateCategory
    \/ DeleteCategory
    \/ CreateTransaction(LedgerTransactionData)
    \/ DeleteTransaction
    \/ CreateBudget(SomeBudgetData)
    \/ DeleteBudget
    \/ CalculateBudgetProgress

SpecAllocations == Init /\ [][NextAllocations]_vars

----------------------------------------------------------------------------
(* Contributions to one goal from requests that overlap *)

\* a request reaches the query of add_goal_contribution and loads the goal
BeginContribution ==
    \E u \in Users, id \in GoalIds \ {MissingId}, amount \in {1, 2},
       s \in (1 .. MaxSessions) \ DOMAIN sessions :
        /\ GoalOf(id, u) # None
        /\ Cardinality(DOMAIN sessions) + Cardinality(DOMAIN contributions) < MaxContribs
        /\ sessions' = With(sessions, s, ReadGoal(id, amount))
        /\ UNCHANGED <<today, goals, contributions, ledgerTables, budgetTables,
                       reportTables, last>>

\* a request in flight runs to its commit
FinishContribution ==
    \E s \in DOMAIN sessions, f \in Faults :
        LET r == FlushContribution(sessions[s], f)
        IN  /\ goals' = r.goals
            /\ contributions' = r.contributions
            /\ sessions' = Without(sessions, s)
            /\ last' = Call("add_goal_contribution", r.res, FALSE, "None")
            /\ UNCHANGED <<today, ledgerTables, budgetTables, reportTables>>

\* goals that start empty, with a target one or two contributions reach
ConcurrentGoalData == [target_amount : {2, 3, 4}, current_amount : {0}, deadline : {None}]

NextConcurrent ==
    \/ CreateGoal(ConcurrentGoalData)
    \/ BeginContribution
    \/ FinishContribution

SpecConcurrent == Init /\ [][NextConcurrent]_vars

----------------------------------------------------------------------------
(* The parameters of a report request *)

\* generate_new_report up to the save: generate_report(current_user_id,
\* report_type, parameters) on the parameters of the request body, and the
\* parameters dict as the route holds it afterwards, which is what it passes
\* to save_report
GenerateNewReport ==
    \E u \in Users, t \in ReportTypes, p \in ReportParameters :
        /\ last' = [op |-> "generate_report", res |-> generate_report(u, t, p).res,
                    foreign |-> FALSE, absent |-> "ok",
                    user_id |-> u, type |-> t,
                    request |-> p, parameters |-> ParametersAfter(p)]
        /\ UNCHANGED <<today, goalTables, ledgerTables, budgetTables, reportTables>>

NextParameters ==
    \/ CreateCategory
    \/ CreateTransaction(ReportedTransactionData)
    \/ GenerateNewReport

SpecParameters == Init /\ [][NextParameters]_vars

----------------------------------------------------------------------------
(* Properties of the goal operations *)

\* the step is a call of op (Tick is the only step that moves the clock)
IsCall(op) == last'.op = op /\ today' = today

NewContributions == DOMAIN contributions' \ DOMAIN contributions

\* C1: add_goal_contribution is atomic.  A call that succeeds persists exactly
\* one new contribution row together with the goal's current_amount raised by
\* that row's amount and is_completed / completed_date re-evaluated; a call
\* that returns None or raises (or is refused) leaves goals and contributions
\* exactly as they were.
C1_ContributionAtomic ==
    [][IsCall("add_goal_contribution") =>
          IF last'.res = "ok"
          THEN \E c \in NewContributions :
                  LET g == contributions'[c].goal_id
                  IN  /\ DOMAIN contributions' = DOMAIN contributions \cup {c}
                      /\ \A k \in DOMAIN contributions : contributions'[k] = contributions[k]
                      /\ DOMAIN goals' = DOMAIN goals
                      /\ \A k \in DOMAIN goals \ {g} : goals'[k] = goals[k]
                      /\ goals'[g].current_amount
                             = goals[g].current_amount + contributions'[c].amount
                      /\ goals'[g].is_completed
                             = (goals[g].is_completed
                                    \/ goals'[g].current_amount >= goals'[g].target_amount)
          ELSE goals' = goals /\ contributions' = contributions]_vars

\* a contribution whose commit raised, on a goal of the caller
C1_Witness ==
    /\ last.op = "add_goal_contribution"
    /\ last.res = "raise"
    /\ goals # <<>>

\* C2: in every stored goal, is_completed is true exactly when
\* current_amount >= target_amount.
C2_CompletedIffReached ==
    \A g \in DOMAIN goals :
        goals[g].is_completed <=> goals[g].current_amount >= goals[g].target_amount

\* an update took a completion back on a goal that has a contribution
C2_Witness ==
    /\ last.op = "update_goal"
    /\ last.res = "ok"
    /\ \E c \in DOMAIN contributions :
          /\ contributions[c].goal_id \in DOMAIN goals
          /\ ~goals[contributions[c].goal_id].is_completed
          /\ goals[contributions[c].goal_id].current_amount
                 < goals[contributions[c].goal_id].target_amount
          /\ goals[contributions[c].goal_id].current_amount >= 2

\* the goal row g of the next state was there before the step
SameGoal(g) == g \in DOMAIN goals

\* C3: completed_date is set (to the current date) at the step where a goal
\* becomes completed, stays as it is while the goal stays completed, and is
\* cleared by the update that takes the completion back; so completed_date is
\* set exactly when is_completed is true.
C3_CompletedDateLifecycle ==
    /\ [](\A g \in DOMAIN goals : goals[g].is_completed <=> goals[g].completed_date # None)
    /\ [][\A g \in DOMAIN goals' :
             IF SameGoal(g)
             THEN /\ (~goals[g].is_completed /\ goals'[g].is_completed)
                         => goals'[g].completed_date = today
                  /\ (goals[g].is_completed /\ goals'[g].is_completed)
                         => goals'[g].completed_date = goals[g].completed_date
                  /\ (goals[g].is_completed /\ ~goals'[g].is_completed)
                         => /\ goals'[g].completed_date = None
                            /\ last'.op = "update_goal"
             ELSE goals'[g].is_completed => goals'[g].completed_date = today]_vars

\* a goal completed on an earlier day took a contribution and kept its date
C3_Witness ==
    /\ last.op = "add_goal_contribution"
    /\ last.res = "ok"
    /\ \E c \in DOMAIN contributions :
          /\ contributions[c].goal_id \in DOMAIN goals
          /\ goals[contributions[c].goal_id].is_completed
          /\ goals[contributions[c].goal_id].completed_date < today
          /\ goals[contributions[c].goal_id].current_amount - contributions[c].amount
                 >= goals[contributions[c].goal_id].target_amount

\* C4: when a contribution raises current_amount from below target_amount to
\* at or above it, is_completed flips to true and completed_date is the
\* effective date of that contribution.
C4_CompletedOnContributionDate ==
    [][IsCall("add_goal_contribution") /\ last'.res = "ok" =>
          \A c \in NewContributions :
              LET g == contributions'[c].goal_id
              IN  (goals[g].current_amount < goals[g].target_amount
                       /\ goals'[g].current_amount >= goals'[g].target_amount)
                  => /\ ~goals[g].is_completed
                     /\ goals'[g].is_completed
                     /\ goals'[g].completed_date = contributions'[c].date]_vars

InPercentRange(p) == FracLeq(Zero, p) /\ FracLeq(p, Hundred)

\* C8: for every stored goal, the percentage of calculate_goal_progress and of
\* generate_goals_report lies in [0, 100] and remaining_amount is >= 0.
C8_GoalPercentageInRange ==
    \A g \in DOMAIN goals :
        /\ InPercentRange(GoalProgress(goals[g]).progress_percentage)
        /\ GoalProgress(goals[g]).remaining_amount >= 0
        /\ GoalsReportEntry(goals[g]).res = "ok"
              => /\ InPercentRange(GoalsReportEntry(goals[g]).percentage)
                 /\ GoalsReportEntry(goals[g]).remaining_amount >= 0

\* C10: the status of calculate_goal_progress is completed if is_completed;
\* else in_progress or on_track if there is no deadline; else overdue if the
\* deadline has passed; else at_risk if days_remaining <= 30 and percentage
\* < 75; else on_track.
C10_StatusPrecedence ==
    \A g \in DOMAIN goals :
        LET goal == goals[g]
            p == GoalProgress(goal)
        IN  IF goal.is_completed THEN p.status = "completed"
            ELSE IF goal.deadline = None THEN p.status \in {"in_progress", "on_track"}
            ELSE IF goal.deadline < today THEN p.status = "overdue"
            ELSE IF p.days_remaining <= 30
                    /\ p.progress_percentage.n < 75 * p.progress_percentage.d
                 THEN p.status = "at_risk"
                 ELSE p.status = "on_track"

----------------------------------------------------------------------------
(* Properties of the store as a whole *)

allTables == <<goalTables, ledgerTables, budgetTables, reportTables>>

NotFound == {"None", "False"}

\* C5: a get, update or delete of a transaction, budget, goal, saved report
\* or report schedule, and add_goal_contribution, get_goal_contributions,
\* calculate_goal_progress, calculate_budget_progress and
\* get_budget_categories, called by a user on a row another user owns, return
\* what they return for an id that does not exist, which is None or False,
\* and leave every table as it was.
C5_OwnershipIsolation ==
    [][(last'.foreign /\ today' = today) =>
          /\ last'.res = last'.absent
          /\ last'.res \in NotFound
          /\ UNCHANGED allTables]_vars

\* a user asked for the allocations of another user's budget, which has some
C5_Witness ==
    /\ last.op = "get_budget_categories"
    /\ last.foreign
    /\ \E b \in DOMAIN budgets : AllocationsOf(budget_categories, b) # {}

\* C6: a mutating call that returns None or False or raises leaves every
\* table as it was before the call; create_budget in particular leaves no
\* budget row behind when it reports failure.
C6_FailureLeavesState ==
    [][(last'.res \in NotFound \cup {"raise"} /\ today' = today) =>
          UNCHANGED allTables]_vars

\* the windows generate_budget_report is asked for
ReportPeriods == {<<FirstDay - 1, FirstDay>>, <<FirstDay, MaxDay>>}

\* C7: for every stored budget, the budget-level and the per-category
\* percentage of calculate_budget_progress and of generate_budget_report lie
\* in [0, 100], and the remaining values are >= 0.
C7_BudgetPercentageInRange ==
    \A b \in DOMAIN budgets :
        /\ LET p == BudgetProgress(b)
           IN  p.res = "ok" =>
                  /\ InPercentRange(p.percentage)
                  /\ p.remaining >= 0
                  /\ \A a \in DOMAIN p.categories :
                        /\ InPercentRange(p.categories[a].percentage)
                        /\ p.categories[a].remaining >= 0
        /\ \A w \in ReportPeriods :
              LET r == generate_budget_report(budgets[b].user_id, w[1], w[2])
              IN  b \in DOMAIN r.budgets =>
                     /\ InPercentRange(r.budgets[b].percentage)
                     /\ r.budgets[b].remaining >= 0
                     /\ \A c \in DOMAIN r.budgets[b].categories :
                           /\ InPercentRange(r.budgets[b].categories[c].percentage)
                           /\ r.budgets[b].categories[c].remaining >= 0

\* C9: in calculate_budget_progress for a budget with allocations, total_spent
\* is the sum of all the owner's expense entries of the budget's window, those
\* of categories without allocation included, each per-category spent is the
\* sum of the entries of that allocation's category, and so total_spent is at
\* least the sum of the per-category spent over the distinct allocated
\* categories.
C9_TotalCoversCategories ==
    \A b \in DOMAIN budgets :
        LET p == BudgetProgress(b)
            allocated == AllocationsOf(budget_categories, b)
            distinct == {budget_categories[a].category_id : a \in allocated}
            owned == {t \in DOMAIN transactions :
                         /\ transactions[t].user_id = budgets[b].user_id
                         /\ transactions[t].type = "expense"
                         /\ budgets[b].start_date <= transactions[t].date
                         /\ transactions[t].date <= budgets[b].end_date}
            spentOf == [c \in distinct |->
                           p.categories[CHOOSE a \in allocated :
                                            budget_categories[a].category_id = c].spent]
        IN  (allocated # {} /\ p.res = "ok") =>
               /\ p.total_spent
                      = Sum(spentOf, distinct)
                          + Sum(Amounts, {t \in owned :
                                             transactions[t].category_id \notin distinct})
               /\ \A a \in allocated :
                     p.categories[a].spent
                         = Sum(Amounts, {t \in owned : transactions[t].category_id
                                                          = budget_categories[a].category_id})
               /\ p.total_spent >= Sum(spentOf, distinct)

----------------------------------------------------------------------------
(* Properties of the derived figures *)

\* the key is in the result
Given(x) == x # None
GivenFrac(q) == q.n # None

C12_NoDivisionError ==
    /\ \A g \in DOMAIN goals :
          /\ GoalProgress(goals[g]).res = "ok"
          /\ GoalsReportEntry(goals[g]).res # "ZeroDivisionError"
          /\ goals[g].target_amount = 0
                => /\ GoalProgress(goals[g]).progress_percentage = Zero
                   /\ GoalsReportEntry(goals[g]).percentage = Zero
    /\ \A b \in DOMAIN budgets :
          BudgetProgress(b).res # "ZeroDivisionError"

----------------------------------------------------------------------------
(* Properties of the reports *)

\* C13: for every report type and every parameter record, generate_report
\* returns a report or a record with the key 'error'; no exception escapes
\* (as claimed; a monthly report without start_month reads None.year).
C13_NoExceptionEscapes ==
    last.op = "generate_report" => last.res \in {"ok", "error"}

----------------------------------------------------------------------------
(* Properties of the ledger *)

\* C14: after any sequence of transaction creations and updates the API
\* accepts, every stored entry has amount > 0 and a type of income or
\* expense (as claimed; the update route stores any amount).
C14_StoredEntriesValid ==
    \A t \in DOMAIN transactions :
        /\ transactions[t].amount > 0
        /\ transactions[t].type \in {"income", "expense"}

\* the category is one the user may use: of the system, or the user's own
Accessible(category_id, user_id) ==
    /\ category_id \in DOMAIN categories
    /\ \/ categories[category_id].is_default
       \/ categories[category_id].user_id = user_id

\* C15: after any sequence of create_transaction, update_transaction,
\* create_category and delete_category, the category of every stored entry
\* exists and is a system default or owned by the owner of the entry (as
\* claimed; the entry calls only check that the category exists).
C15_CategoryAccessible ==
    \A t \in DOMAIN transactions :
        Accessible(transactions[t].category_id, transactions[t].user_id)

\* the entries filed under category c
Referenced(c) == \E t \in DOMAIN transactions : transactions[t].category_id = c

\* C16: delete_category and update_category never remove or change a
\* system-default category; delete_category returns False and changes
\* nothing whenever an entry of any user is filed under the category; so
\* every stored entry keeps pointing at a stored category.
C16_CategoryDeletionGuarded ==
    [][/\ (IsCall("delete_category") \/ IsCall("update_category"))
             => \A c \in DOMAIN categories :
                   categories[c].is_default
                      => c \in DOMAIN categories' /\ categories'[c] = categories[c]
       /\ IsCall("delete_category")
             => /\ \A c \in DOMAIN categories :
                      Referenced(c) => c \in DOMAIN categories'
                /\ last'.res = "False" => categories' = categories
                /\ transactions' = transactions
       /\ \A t \in DOMAIN transactions' :
             transactions'[t].category_id \in DOMAIN categories']_vars

\* an owner asked to delete a category an entry is filed under, and was refused
C16_Witness ==
    /\ last.op = "delete_category"
    /\ last.res = "False"
    /\ ~last.foreign
    /\ \E c \in DOMAIN categories : ~categories[c].is_default /\ Referenced(c)
    /\ \E c \in DOMAIN categories : categories[c].is_default

----------------------------------------------------------------------------
(* Properties of the budgets *)

\* C17: after any sequence of create_budget and update_budget, every stored
\* budget has end_date >= start_date (as claimed; update_budget moves either
\* date without comparing them).
C17_PeriodOrdered ==
    \A b \in DOMAIN budgets : budgets[b].end_date >= budgets[b].start_date

----------------------------------------------------------------------------
(* Properties of the contributions *)

\* C18: contributions are append-only. add_goal_contribution adds exactly one
\* row when it succeeds and none when it fails, and changes no existing row;
\* update_goal leaves the contributions as they are; a row is never edited,
\* and is removed only by delete_goal removing its goal.
C18_ContributionsAppendOnly ==
    [][/\ IsCall("add_goal_contribution")
             => /\ DOMAIN contributions \subseteq DOMAIN contributions'
                /\ Cardinality(NewContributions) = (IF last'.res = "ok" THEN 1 ELSE 0)
       /\ IsCall("update_goal") => contributions' = contributions
       /\ \A c \in DOMAIN contributions :
             IF c \in DOMAIN contributions'
             THEN contributions'[c] = contributions[c]
             ELSE /\ IsCall("delete_goal")
                  /\ contributions[c].goal_id \notin DOMAIN goals']_vars

\* a goal that has a contribution was updated, and the contribution is there
C18_Witness ==
    /\ last.op = "update_goal"
    /\ last.res = "ok"
    /\ \E c \in DOMAIN contributions : contributions[c].goal_id \in DOMAIN goals

----------------------------------------------------------------------------
(* Properties of the saved reports *)

\* what generate_report returns now for the owner and type of saved report r
Regenerated(r) ==
    {generate_report(reports[r].user_id, reports[r].type, p) : p \in ReportParameters}

\* C19: a saved report is a snapshot. What is stored is what generate_report
\* returned when the report was saved; no step changes a saved report,
\* whatever is created, updated or deleted in the ledger, the budgets and the
\* goals; and only delete_report removes one.
C19_SavedReportIsSnapshot ==
    [][\A r \in DOMAIN reports \cup DOMAIN reports' :
          /\ r \in DOMAIN reports /\ r \in DOMAIN reports'
                => reports'[r] = reports[r]
          /\ r \in DOMAIN reports /\ r \notin DOMAIN reports'
                => IsCall("delete_report")
          /\ r \notin DOMAIN reports /\ r \in DOMAIN reports'
                => /\ IsCall("save_report")
                   /\ \E u \in Users, t \in ReportTypes, p \in ReportParameters :
                         /\ reports'[r].user_id = u
                         /\ reports'[r].type = t
                         /\ reports'[r].data = generate_report(u, t, p)]_vars

\* the owner reads a saved report whose data no longer match what the same
\* report would show now
C19_Witness ==
    /\ last.op = "get_report"
    /\ last.res = "ok"
    /\ ~last.foreign
    /\ \E r \in DOMAIN reports :
          /\ reports[r].data.res = "ok"
          /\ reports[r].data \notin Regenerated(r)

----------------------------------------------------------------------------
(* Properties of the report schedules *)

\* what update_report_schedule makes of schedule s, for every call of it
\* that succeeds on s
UpdatedSchedules(s) ==
    {[given |-> d, now |-> update_report_schedule(s, u, d, f).report_schedules[s]] :
        <<u, d, f>> \in {x \in Users \X ScheduleUpdates \X Faults :
                            /\ ScheduleOf(s, x[1]) # None
                            /\ update_report_schedule(s, x[1], x[2], x[3]).res = "ok"}}

\* C20 as claimed: whenever update_report_schedule changes the frequency of a
\* schedule, next_run is recomputed and last_run is recomputed too, that is,
\* given a timestamp; an update without a frequency leaves both as they were.
C20_BothRunsRecomputed ==
    \A s \in DOMAIN report_schedules :
        \A c \in UpdatedSchedules(s) :
            IF "frequency" \in DOMAIN c.given
            THEN /\ c.now.next_run = calculate_next_run(c.given["frequency"])
                 /\ c.now.frequency # report_schedules[s].frequency
                       => c.now.last_run # None
            ELSE /\ c.now.next_run = report_schedules[s].next_run
                 /\ c.now.last_run = report_schedules[s].last_run

\* C20 as amended: an update_report_schedule that is given a frequency sets
\* next_run to calculate_next_run of that frequency, an update without a
\* frequency leaves next_run as it was, and no update changes last_run.
C20_NextRunRecomputed ==
    \A s \in DOMAIN report_schedules :
        \A c \in UpdatedSchedules(s) :
            /\ c.now.last_run = report_schedules[s].last_run
            /\ IF "frequency" \in DOMAIN c.given
               THEN /\ c.now.frequency = c.given["frequency"]
                    /\ c.now.next_run = calculate_next_run(c.given["frequency"])
               ELSE /\ c.now.frequency = report_schedules[s].frequency
                    /\ c.now.next_run = report_schedules[s].next_run

\* the frequency of an active schedule was just updated, and its next run is
\* a week from today
C20_Witness ==
    /\ last.op = "update_report_schedule"
    /\ last.res = "ok"
    /\ \E s \in DOMAIN report_schedules :
          /\ report_schedules[s].is_active
          /\ report_schedules[s].frequency = "weekly"
          /\ report_schedules[s].next_run = calculate_next_run("weekly")
          /\ report_schedules[s].last_run = None

----------------------------------------------------------------------------
(* Properties of the monthly report *)

\* the sum of field f of the monthly data over the months S
MonthsSum(data, f, S) == Sum([i \in 1 .. Len(data) |-> data[i][f]], S)

\* trend is the direction of the change from prev to last measured against by
FollowsChange(trend, last_3, prev_3, by) ==
    LET change == Quot((last_3 - prev_3) * 100, by)
    IN  /\ trend = "up" <=> FracLess(Frac(5, 1), change)
        /\ trend = "down" <=> FracLess(change, Frac(-5, 1))
        /\ trend = "stable" <=> FracLeq(Frac(-5, 1), change) /\ FracLeq(change, Frac(5, 1))

\* C21: in a monthly report over six months or more, each trend is 'up' when
\* the mean of the last three months is more than 5 percent above the mean of
\* the three before, 'down' when it is more than 5 percent below, 'stable' in
\* between; the balance is measured against the absolute prior mean and is
\* stable when that mean is zero
C21_TrendsFollowChange ==
    last.op = "generate_monthly_report" /\ last.request.months_count >= 6 =>
        LET data == last.monthly_data
            n == Len(data)
            last_3(f) == MonthsSum(data, f, (n - 2) .. n)
            prev_3(f) == MonthsSum(data, f, (n - 5) .. (n - 3))
        IN  /\ \A f \in {"income", "expense"} :
                  prev_3(f) # 0 =>
                      FollowsChange(last.trends[f], last_3(f), prev_3(f), prev_3(f))
            /\ IF prev_3("balance") = 0 THEN last.trends.balance = "stable"
               ELSE FollowsChange(last.trends.balance, last_3("balance"), prev_3("balance"),
                                  IF prev_3("balance") < 0 THEN 0 - prev_3("balance")
                                  ELSE prev_3("balance"))

\* the same over a ledger whose amounts are all positive
C21_TrendsOfPositiveAmounts ==
    (\A t \in DOMAIN transactions : transactions[t].amount > 0) => C21_TrendsFollowChange

\* C28: the period of a monthly report ends on the last day of its n-th
\* month, the day before the first of the month n months after the start month
C28_PeriodEndsAfterMonths ==
    last.op = "generate_monthly_report" =>
        LET k == (last.request.month - 1) + last.request.months_count
        IN  last.end_date = toordinal(last.request.year + (k \div 12), (k % 12) + 1, 1) - 1

\* the period ends on the last day of the start month
C28_PeriodEndsWithStartMonth ==
    last.op = "generate_monthly_report" =>
        last.end_date = toordinal(last.request.year, last.request.month,
                                  DaysInMonth(last.request.year, last.request.month))

----------------------------------------------------------------------------
(* Properties of the date ranges *)

\* C23: get_date_range returns a start not after its end with the reference
\* date between them; a day, week, month, quarter and year are 1, 7, 28 to 31,
\* 90 to 92 and 365 or 366 days long, and a period that is not known gives the
\* range of the month
C23_DateRange ==
    last.op = "get_date_range" =>
        LET ref == toordinal(last.reference_date.year, last.reference_date.month,
                             last.reference_date.day)
            days == (last.range.end - last.range.start) + 1
        IN  /\ last.range.start <= ref /\ ref <= last.range.end
            /\ last.period = "day" => days = 1
            /\ last.period = "week" => days = 7
            /\ last.period = "month" => days \in 28 .. 31
            /\ last.period = "quarter" => days \in 90 .. 92
            /\ last.period = "year" => days \in {365, 366}
            /\ last.period \notin {"day", "week", "month", "quarter", "year", "all"} =>
                   last.range = get_date_range("month", last.reference_date)

\* the first quarter of a common year, asked for from within it
C23_Witness ==
    /\ last.op = "get_date_range"
    /\ last.period = "quarter"
    /\ last.range.end - last.range.start = 89
    /\ last.range.start < toordinal(last.reference_date.year, last.reference_date.month,
                                    last.reference_date.day)

----------------------------------------------------------------------------
(* Properties of the summary report *)

\* the sum of the totals of a list of category entries
ListTotal(list) == Sum([i \in DOMAIN list |-> list[i].total], DOMAIN list)

\* C22: the summary report's balance is income minus expense, the totals of
\* the category entries of both lists together sum to income plus expense, and
\* no category has more than one entry
C22_CategoryTotalsCoverSummary ==
    last.op = "generate_summary_report" =>
        LET all == last.categories.income \o last.categories.expense
        IN  /\ last.summary.balance = last.summary.income - last.summary.expense
            /\ ListTotal(all) = last.summary.income + last.summary.expense
            /\ \A i, j \in DOMAIN all : all[i].id = all[j].id => i = j

\* a report with income and expenses under two categories
C22_Witness ==
    /\ last.op = "generate_summary_report"
    /\ last.categories.income # <<>>
    /\ last.categories.expense # <<>>
    /\ last.summary.income > 0 /\ last.summary.expense > 0

\* C29: the totals of the income list sum to the summary's income and those
\* of the expense list to its expense, and each list is in descending order
\* of total
C29_ListsMatchSummary ==
    last.op = "generate_summary_report" =>
        /\ ListTotal(last.categories.income) = last.summary.income
        /\ ListTotal(last.categories.expense) = last.summary.expense
        /\ \A list \in {last.categories.income, last.categories.expense} :
               \A i, j \in DOMAIN list : i < j => list[i].total >= list[j].total

\* the same when no category has entries of both types
C29_ListsOfUnmixedCategories ==
    (\A t, u \in DOMAIN transactions :
        transactions[t].category_id = transactions[u].category_id
            => transactions[t].type = transactions[u].type)
        => C29_ListsMatchSummary

----------------------------------------------------------------------------
(* Properties of the two budget calculators *)

\* C25: for every active budget and every report window that covers the
\* budget's own, the entry of generate_budget_report has the total_spent,
\* remaining and percentage that calculate_budget_progress returns
C25_BudgetCalculatorsAgree ==
    \A b \in DOMAIN budgets :
        budgets[b].is_active /\ BudgetProgress(b).res = "ok" =>
            \A start_date \in {budgets[b].start_date - 1, budgets[b].start_date},
               end_date \in {budgets[b].end_date, budgets[b].end_date + 1} :
                LET progress == BudgetProgress(b)
                    entry == BudgetReportEntry(b, start_date, end_date)
                IN  /\ b \in ReportedBudgets(budgets[b].user_id, start_date, end_date)
                    /\ entry.total_spent = progress.total_spent
                    /\ entry.remaining = progress.remaining
                    /\ FracEq(entry.percentage, progress.percentage)

\* the same for the budgets without allocations
C25_GeneralBudgetsAgree ==
    (\A b \in DOMAIN budgets : AllocationsOf(budget_categories, b) = {})
        => C25_BudgetCalculatorsAgree

----------------------------------------------------------------------------
(* Properties of the two goal calculators *)

\* in_progress of calculate_goal_progress and on_track of generate_goals_report
\* name the same status
SameStatus(a, b) ==
    LET name(s) == IF s = "on_track" THEN "in_progress" ELSE s
    IN  name(a) = name(b)

\* C26: for every goal on every day, calculate_goal_progress and the entry of
\* generate_goals_report give the same status, in_progress and on_track taken
\* as one, and the same days_remaining
C26_GoalCalculatorsAgree ==
    \A g \in DOMAIN goals :
        GoalsReportEntry(goals[g]).res = "ok" =>
            /\ SameStatus(GoalProgress(goals[g]).status, GoalsReportEntry(goals[g]).status)
            /\ GoalProgress(goals[g]).days_remaining = GoalsReportEntry(goals[g]).days_remaining

\* the same for the goals whose deadline is not today
C26_AgreeOffTheDeadline ==
    (\A g \in DOMAIN goals : goals[g].deadline # today) => C26_GoalCalculatorsAgree

----------------------------------------------------------------------------
(* Properties of the allocations *)

\* C27: after any sequence of category, entry and budget operations every
\* stored allocation names a category that exists, and
\* calculate_budget_progress returns a record and raises nothing
C27_AllocationsReferenceCategories ==
    /\ \A a \in DOMAIN budget_categories :
           budget_categories[a].category_id \in DOMAIN categories
    /\ last.op = "calculate_budget_progress" => last.res \in {"ok", "None"}

\* only a deletion of a category leaves an allocation without its category
C27_OnlyCategoryDeletionBreaks ==
    [][(C27_AllocationsReferenceCategories
            /\ ~(\A a \in DOMAIN budget_categories' :
                     budget_categories'[a].category_id \in DOMAIN categories'))
        => last'.op = "delete_category"]_vars

----------------------------------------------------------------------------
(* Properties of overlapping contributions *)

\* C24: once the add_goal_contribution calls on a goal that started at zero
\* have returned, in whatever order their steps interleaved, current_amount
\* is the sum of the contributions stored for the goal, and is_completed
\* tells whether it has reached the target
C24_NoLostUpdate ==
    sessions = <<>> =>
        \A g \in DOMAIN goals :
            LET mine == {c \in DOMAIN contributions : contributions[c].goal_id = g}
                total == Sum([c \in DOMAIN contributions |-> contributions[c].amount], mine)
            IN  /\ goals[g].current_amount = total
                /\ goals[g].is_completed <=> total >= goals[g].target_amount

----------------------------------------------------------------------------
(* Properties of the report parameters *)

\* C30: generate_report changes no stored row and leaves the parameters of
\* the caller as the request gave them, so the parameters handed to
\* save_report after the generation are the inputs of the request
C30_GenerationReadOnly ==
    [][last'.op = "generate_report" =>
           /\ allTables' = allTables
           /\ last'.parameters = last'.request]_vars

\* generate_report changes no stored row, and leaves parameters without a
\* 'period' as they were
C30_ReadOnlyWithoutPeriod ==
    [][last'.op = "generate_report" =>
           /\ allTables' = allTables
           /\ "period" \notin DOMAIN last'.request => last'.parameters = last'.request]_vars

====
